---------------------------- MODULE Spec2Model ----------------------------
(***************************************************************************)
(* MiniLua: the tree-walking evaluator (details::Interpreter) over a      *)
(* tree-sitter syntax tree.                                                *)
(*                                                                         *)
(* A syntax node is a record [type, kids, text, range]; kids holds every   *)
(* child of the node in order, anonymous tokens ("do", "end", "(", ...)    *)
(* included, because the evaluator walks them with cursors.  text is the   *)
(* node's source text as a sequence of strings (the characters of a        *)
(* literal one by one, the name of an identifier as one unit) and range is *)
(* the node's position in the tree (the path of child indices from the     *)
(* root), which identifies the node as its byte range does.                *)
(*                                                                         *)
(* Every visit_* operator is the method of the same name.  C++ references  *)
(* (Env& env) become values threaded through the result: a visit returns   *)
(* [result, env, exc] where env is the environment after the visit and exc *)
(* is <<>> or <<e>> for an exception e in flight.  Loops of the code are   *)
(* recursive helper operators named after the method.  assert()s of the    *)
(* code hold on every tree built here and are not restated.                *)
(***************************************************************************)
EXTENDS Integers, Sequences, FiniteSets, TLC

VARIABLES source, tree, env, phase, result, error,
          \* the Table objects the embedding program holds and the Table::Impl
          \* cells they point to
          tables, impls,
          \* a ts::Tree object [tree, source_] (tree is <<>> for a null pointer,
          \* else <<t>> for the TSTree t it owns) and the last call of Tree::edit
          ts_tree, edit_call,
          \* the last call of Interpreter::parse
          parse_call,
          \* the last call of Value::force by the embedding program, and whether
          \* the change it gave was applied
          forced

vars == <<source, tree, env, phase, result, error, tables, impls, ts_tree, edit_call, parse_call, forced>>

(* ------------------------------ bounds -------------------------------- *)

\* iterations one execution of a loop may run before it counts as diverging
MaxIter == 3
\* number of Table objects the embedding program creates
MaxTables == 3
\* length of the source text of a ts::Tree, and how far past its end the byte
\* positions of an edit reach
MaxLen == 3
\* number of edits in one call of Tree::edit
MaxEdits == 2
\* nesting depth of the blocks wrapped around a break / return
MaxDepth == 2
\* number of arms (if + elseif) of the generated if statements
MaxArms == 3

(* ------------------------------ values -------------------------------- *)

NoOrigin == [kind |-> "none"]

LiteralOrigin(location) == [kind |-> "literal", location |-> location]

BinaryOrigin(op, lhs, rhs, location) ==
    [kind |-> "binary", op |-> op, lhs |-> lhs, rhs |-> rhs, location |-> location]

UnaryOrigin(op, val, location) ==
    [kind |-> "unary", op |-> op, val |-> val, location |-> location]

Nil == [type |-> "nil", val |-> 0, origin |-> NoOrigin]

Bool(b) == [type |-> "bool", val |-> b, origin |-> NoOrigin]

Number(n) == [type |-> "number", val |-> n, origin |-> NoOrigin]

String(s) == [type |-> "string", val |-> s, origin |-> NoOrigin]

NativeFunction(id) == [type |-> "function", val |-> id, origin |-> NoOrigin]

with_origin(v, origin) == [v EXCEPT !.origin = origin]

\* operator==(const Value&, const Value&): the variants are compared, not the origins
ValueEq(a, b) == a.type = b.type /\ a.val = b.val

\* Value::operator bool: only Nil and false are falsy
Truthy(v) == ~(v.type = "nil" \/ (v.type = "bool" /\ v.val = FALSE))

DigitValue(c) ==
    CASE c = "0" -> 0 [] c = "1" -> 1 [] c = "2" -> 2 [] c = "3" -> 3 [] c = "4" -> 4
      [] c = "5" -> 5 [] c = "6" -> 6 [] c = "7" -> 7 [] c = "8" -> 8 [] c = "9" -> 9

DigitChar(k) ==
    CASE k = 0 -> "0" [] k = 1 -> "1" [] k = 2 -> "2" [] k = 3 -> "3" [] k = 4 -> "4"
      [] k = 5 -> "5" [] k = 6 -> "6" [] k = 7 -> "7" [] k = 8 -> "8" [] k = 9 -> "9"

RECURSIVE DecimalValue(_)
DecimalValue(text) ==
    IF text = <<>> THEN 0
    ELSE 10 * DecimalValue(SubSeq(text, 1, Len(text) - 1)) + DigitValue(text[Len(text)])

IsDecimal(text) ==
    /\ text # <<>>
    /\ \A i \in 1..Len(text) : text[i] \in {"0", "1", "2", "3", "4", "5", "6", "7", "8", "9"}

\* parse_number_literal: the Number a numeric literal denotes (decimal integers here)
parse_number_literal(text) == Number(DecimalValue(text))

\* parse_string_literal: the text between the quotes; fails when they are missing
parse_string_literal(text) ==
    IF Len(text) >= 2 /\ text[1] = "\"" /\ text[Len(text)] = "\""
    THEN [ok |-> TRUE, value |-> String(SubSeq(text, 2, Len(text) - 1))]
    ELSE [ok |-> FALSE, value |-> Nil]

(* The value operators.  Numbers are integers in this model; an operator   *)
(* whose result would leave the integers, and the ordering of strings,    *)
(* fail with the reason "unmodelled" so that nothing is concluded there.   *)

OpOk(v) == [ok |-> TRUE, value |-> v, what |-> ""]

OpFail(what) == [ok |-> FALSE, value |-> Nil, what |-> what]

IsNumeric(v) == v.type = "number" \/ (v.type = "string" /\ IsDecimal(v.val))

ToNumber(v) == IF v.type = "number" THEN v.val ELSE DecimalValue(v.val)

Arith(op, a, b) ==
    CASE op = "+" -> OpOk(Number(a + b))
      [] op = "-" -> OpOk(Number(a - b))
      [] op = "*" -> OpOk(Number(a * b))
      [] op = "%" -> IF b > 0 THEN OpOk(Number(a % b)) ELSE OpFail("unmodelled")
      [] op = "/" -> IF b # 0 /\ a >= 0 /\ b > 0 /\ a % b = 0
                     THEN OpOk(Number(a \div b)) ELSE OpFail("unmodelled")
      [] op = "^" -> IF b >= 0 THEN OpOk(Number(a ^ b)) ELSE OpFail("unmodelled")

Compare(op, a, b) ==
    CASE op = "<" -> a < b
      [] op = "<=" -> a <= b
      [] op = ">" -> a > b
      [] op = ">=" -> a >= b

\* Value::add, sub, mul, ... : lhs op rhs, tagged with a Binary origin
ValueBinary(op, lhs, rhs, location) ==
    LET tag(r) == IF r.ok
                  THEN OpOk(with_origin(r.value, BinaryOrigin(op, lhs, rhs, location)))
                  ELSE r
    IN  CASE op \in {"+", "-", "*", "/", "^", "%"} ->
               IF IsNumeric(lhs) /\ IsNumeric(rhs)
               THEN tag(Arith(op, ToNumber(lhs), ToNumber(rhs)))
               ELSE OpFail("attempt to perform arithmetic on a non-number value")
          [] op \in {"<", "<=", ">", ">="} ->
               IF lhs.type = "number" /\ rhs.type = "number"
               THEN tag(OpOk(Bool(Compare(op, lhs.val, rhs.val))))
               ELSE IF lhs.type = "string" /\ rhs.type = "string"
               THEN OpFail("unmodelled")
               ELSE OpFail("attempt to compare values of different types")
          [] op = "==" -> tag(OpOk(Bool(ValueEq(lhs, rhs))))
          [] op = "~=" -> tag(OpOk(Bool(~ValueEq(lhs, rhs))))
          [] op = "and" -> tag(OpOk(IF Truthy(lhs) THEN rhs ELSE lhs))
          [] op = "or" -> tag(OpOk(IF Truthy(lhs) THEN lhs ELSE rhs))
          [] op \in {"&", "|", ".."} -> OpFail("unmodelled")

\* Value::negate, invert, len
ValueUnary(op, val, location) ==
    LET tag(v) == OpOk(with_origin(v, UnaryOrigin(op, val, location)))
    IN  CASE op = "-" -> IF IsNumeric(val) THEN tag(Number(0 - ToNumber(val)))
                         ELSE OpFail("attempt to negate a non-number value")
          [] op = "not" -> tag(Bool(~Truthy(val)))
          [] op = "#" -> IF val.type = "string" THEN tag(Number(Len(val.val)))
                         ELSE OpFail("unmodelled")


(* --------------------------- source changes --------------------------- *)

\* std::optional<T>: <<>> is nullopt, <<x>> holds x
nullopt == <<>>

has_value(o) == o # <<>>

\* SourceChange: one edit, replacement for the text at range
SourceChange(range, replacement) ==
    [kind |-> "edit", range |-> range, replacement |-> replacement, changes |-> <<>>]

SourceChangeCombination(changes) ==
    [kind |-> "and", range |-> <<>>, replacement |-> <<>>, changes |-> changes]

\* a SourceChangeTree of which one child is applied
SourceChangeAlternative(changes) ==
    [kind |-> "or", range |-> <<>>, replacement |-> <<>>, changes |-> changes]

combine_source_changes(lhs, rhs) ==
    IF has_value(lhs) /\ has_value(rhs)
    THEN <<SourceChangeCombination(<<lhs[1], rhs[1]>>)>>
    ELSE IF has_value(lhs) THEN lhs
    ELSE rhs

(* Value::force(target) walks the origin of a value down to the literals it *)
(* came from and proposes new texts for them.  Of the arithmetic operators  *)
(* only + and - are reversed here, the ones whose inverse stays in the      *)
(* integers.                                                                *)

\* the decimal digits of a natural number
RECURSIVE DecimalText(_)
DecimalText(n) ==
    IF n < 10 THEN <<DigitChar(n)>>
    ELSE Append(DecimalText(n \div 10), DigitChar(n % 10))

\* Value::to_literal: the source text of a literal of the value
to_literal(v) ==
    CASE v.type = "number" ->
             IF v.val < 0 THEN <<"-">> \o DecimalText(0 - v.val) ELSE DecimalText(v.val)
      [] v.type = "bool" -> IF v.val THEN <<"t", "r", "u", "e">>
                            ELSE <<"f", "a", "l", "s", "e">>
      [] v.type = "nil" -> <<"n", "i", "l">>
      [] v.type = "string" -> <<"\"">> \o v.val \o <<"\"">>

forceValue_without_text(location, v) == <<SourceChange(location, <<>>)>>

\* sourceval::forceValue(v): one assignment of v's text to the literal's location
forceValue(location, v) == <<SourceChange(location, to_literal(v))>>

\* Value::force(target): the optional SourceChangeTree
RECURSIVE force(_, _)
force(value, target) ==
    LET o == value.origin
        either(lhs, rhs) ==
            IF has_value(lhs) /\ has_value(rhs)
            THEN <<SourceChangeAlternative(<<lhs[1], rhs[1]>>)>>
            ELSE IF has_value(lhs) THEN lhs
            ELSE rhs
    IN  CASE o.kind = "none" -> nullopt
          [] o.kind = "literal" -> forceValue(o.location, target)
          [] o.kind = "unary" ->
                 IF o.op = "-" /\ target.type = "number"
                 THEN force(o.val, Number(0 - target.val))
                 ELSE IF o.op = "not" /\ target.type = "bool"
                 THEN force(o.val, Bool(~target.val))
                 ELSE nullopt
          [] o.kind = "binary" ->
                 IF target.type # "number" \/ ~IsNumeric(o.lhs) \/ ~IsNumeric(o.rhs)
                 THEN nullopt
                 ELSE CASE o.op = "+" ->
                               either(force(o.lhs, Number(target.val - ToNumber(o.rhs))),
                                      force(o.rhs, Number(target.val - ToNumber(o.lhs))))
                        [] o.op = "-" ->
                               either(force(o.lhs, Number(target.val + ToNumber(o.rhs))),
                                      force(o.rhs, Number(ToNumber(o.lhs) - target.val)))
                        [] OTHER -> nullopt

(* ------------------------------ results ------------------------------- *)

\* EvalResult::EvalResult()
EvalResult0 ==
    [value |-> Nil, do_break |-> FALSE, do_return |-> nullopt, source_change |-> nullopt]

\* CallResult: the values a function returned and its optional source change
CallResult(values, source_change) == [values |-> values, source_change |-> source_change]

\* EvalResult::EvalResult(const CallResult&): values().tuple<1>() pads with Nil
EvalResultOfCall(call_result) ==
    [value |-> IF call_result.values = <<>> THEN Nil ELSE call_result.values[1],
     do_break |-> FALSE,
     do_return |-> nullopt,
     source_change |-> call_result.source_change]

\* EvalResult::combine
combine(self, other) ==
    [value |-> other.value,
     do_break |-> other.do_break,
     do_return |-> other.do_return,
     source_change |-> combine_source_changes(self.source_change, other.source_change)]

(* ----------------------------- exceptions ----------------------------- *)

Exception(class, what, arg) == [class |-> class, what |-> what, arg |-> arg]

InterpreterException(what, arg) == Exception("InterpreterException", what, arg)

\* UNIMPLEMENTED(what): UnimplementedException is an InterpreterException
UNIMPLEMENTED(what) == InterpreterException("unimplemented", what)

\* a loop that used up MaxIter iterations: the evaluation does not return
NonTermination == Exception("nontermination", "loop bound reached", <<>>)

Ok(res, e) == [result |-> res, env |-> e, exc |-> <<>>]

Throw(exception, e) == [result |-> EvalResult0, env |-> e, exc |-> <<exception>>]

Failed(r) == r.exc # <<>>

(* ---------------------------- environment ----------------------------- *)
(* Env: a stack of scopes (innermost last), each a map from names to      *)
(* values, over the global scope; out is the tracer's output stream,      *)
(* which the interpreter writes while it walks and which is threaded      *)
(* along with the environment.                                            *)

EmptyScope == [n \in {} |-> Nil]

\* Env(const Env&) as used for blocks: a child scope on top of the visible ones
new_child(e) == [e EXCEPT !.scopes = Append(@, EmptyScope)]

\* the end of a block's C++ scope: the block's Env is dropped, the scopes it
\* shared with the enclosing Env (the outermost depth of them), the globals and the
\* tracer output keep what the block did to them
exit_block(depth, block_env) ==
    [block_env EXCEPT !.scopes = SubSeq(@, 1, depth)]

depth_of(e) == Len(e.scopes)

\* index of the innermost scope that binds name, 0 if none does
binding_scope(e, name) ==
    LET hits == {i \in 1..Len(e.scopes) : name \in DOMAIN e.scopes[i]}
    IN  IF hits = {} THEN 0 ELSE CHOOSE i \in hits : \A j \in hits : j <= i

set_local(e, name, value) ==
    [e EXCEPT !.scopes[Len(e.scopes)] = (name :> value) @@ @]

set_global(e, name, value) ==
    [e EXCEPT !.global = (name :> value) @@ @]

set_var(e, name, value) ==
    LET i == binding_scope(e, name)
    IN  IF i > 0
        THEN [e EXCEPT !.scopes[i] = (name :> value) @@ @]
        ELSE set_global(e, name, value)

get_global(e, name) == IF name \in DOMAIN e.global THEN e.global[name] ELSE Nil

get_var(e, name) ==
    LET i == binding_scope(e, name)
    IN  IF i > 0 THEN e.scopes[i][name] ELSE get_global(e, name)

(* ------------------------------- tracer ------------------------------- *)

config == [trace_nodes |-> TRUE, trace_calls |-> TRUE, trace_enter_block |-> FALSE]

Event(ev, node_type, range, reason, name, args) ==
    [ev |-> ev, type |-> node_type, range |-> range, reason |-> reason,
     name |-> name, args |-> args, change |-> nullopt]

emit(e, event) == [e EXCEPT !.out = Append(@, event)]

trace_enter_node(e, node) ==
    IF config.trace_nodes
    THEN emit(e, Event("enter", node.type, node.range, "", <<>>, <<>>))
    ELSE e

trace_exit_node(e, node, reason) ==
    IF config.trace_nodes
    THEN emit(e, Event("exit", node.type, node.range, reason, <<>>, <<>>))
    ELSE e

trace_function_call(e, function_name, arguments) ==
    IF config.trace_calls
    THEN emit(e, Event("call", "", <<>>, "", function_name, arguments))
    ELSE e

trace_function_call_result(e, function_name, call_result) ==
    IF config.trace_calls
    THEN emit(e, [Event("call_result", "", <<>>, "", function_name, call_result.values)
                      EXCEPT !.change = call_result.source_change])
    ELSE e

\* a block that runs in the scope it was entered from
enter_block_in_same_scope(e) == e

enter_block(e) ==
    IF config.trace_enter_block
    THEN new_child(emit(e, Event("block", "", <<>>, "", <<>>, <<>>)))
    ELSE new_child(e)

(* ------------------------------- nodes -------------------------------- *)

\* node types of the anonymous tokens of the grammar
AnonymousTypes ==
    {"do", "end", "if", "then", "elseif", "else", "while", "repeat", "until", "for",
     "function", "local", "return", "=", "(", ")", ",", ";",
     "==", "~=", ">=", ">", "<=", "<", "+", "-", "*", "/", "^", "%", "&", "|",
     "and", "or", "..", "not", "#"}

\* Node::is_named: a node with children or text is a rule of the grammar
is_named(node) == node.kids # <<>> \/ node.text # <<>> \/ node.type \notin AnonymousTypes

\* Node::child(index), 0-based as in the code; nullopt past the end
child(node, index) ==
    IF index + 1 <= Len(node.kids) THEN <<node.kids[index + 1]>> ELSE nullopt

\* Node::named_child(index): the index-th (0-based) named child's position in kids, 0 if none
named_child_pos(node, index) ==
    LET named == {i \in 1..Len(node.kids) : is_named(node.kids[i])}
        hits == {i \in named : Cardinality({j \in named : j < i}) = index}
    IN  IF hits = {} THEN 0 ELSE CHOOSE i \in hits : TRUE

\* Cursor over the children of node: pos is the 1-based position of the current child.
\* Cursor::goto_next_sibling: whether there is a next sibling
has_next_sibling(node, pos) == pos + 1 <= Len(node.kids)

\* Cursor::skip_n_siblings(n): [pos, skipped] after up to n goto_next_sibling
skip_n_siblings(node, pos, n) ==
    LET k == IF pos + n <= Len(node.kids) THEN n ELSE Len(node.kids) - pos
    IN  [pos |-> pos + k, skipped |-> k]

\* Cursor::skip_siblings_while with the predicate of visit_if_statement:
\* the first position at or after pos that is an elseif, else or end, or the last one
RECURSIVE skip_body(_, _)
skip_body(node, pos) ==
    IF node.kids[pos].type \notin {"elseif", "else", "end"} /\ has_next_sibling(node, pos)
    THEN skip_body(node, pos + 1)
    ELSE pos

IGNORE_NODES == {";", "comment"}

should_ignore_node(node) == node.type \in IGNORE_NODES


(* ----------------------- native functions (stdlib) --------------------- *)
(* The functions the embedding program registered in the global scope:     *)
(* probe returns its arguments, nop returns nothing, fail throws a         *)
(* std::runtime_error, change returns its arguments and the source change  *)
(* that forces its first argument to the value it has, rebind returns its  *)
(* arguments and binds a name through the environment of its CallContext,  *)
(* get returns the variable its argument names, read with ctx.get(name).   *)

\* the Environment handed to native functions: the global variables
make_environment(e) == [global |-> e.global]

\* Environment::get: global.at(name) throws std::out_of_range for a missing key
Environment_get(environment, name) ==
    IF name \in DOMAIN environment.global
    THEN [thrown |-> <<>>, value |-> environment.global[name]]
    ELSE [thrown |-> <<Exception("out_of_range", "at", name)>>, value |-> Nil]

\* CallContext(&environment).make_new(arguments)
CallContext(environment, args) == [env |-> environment, args |-> args]

\* CallContext::get
CallContext_get(ctx, name) == Environment_get(ctx.env, name)

\* Environment::add: global.insert_or_assign(name, value)
Environment_add(environment, name, value) ==
    [environment EXCEPT !.global = (name :> value) @@ @]

\* what the native function does to the environment its CallContext refers to:
\* rebind binds the name its argument gives to the function nop
NativeEffect(obj, ctx) ==
    IF obj.type = "function" /\ obj.val = "rebind"
           /\ ctx.args # <<>> /\ ctx.args[1].type = "string"
    THEN Environment_add(ctx.env, ctx.args[1].val, NativeFunction("nop"))
    ELSE ctx.env

\* the values and the exception of Value::call(ctx): [thrown, call_result]
NativeResult(obj, ctx) ==
    LET arguments == ctx.args
        got(lookup) == [thrown |-> lookup.thrown,
                        call_result |-> CallResult(<<lookup.value>>, nullopt)]
    IN
    IF obj.type # "function"
    THEN [thrown |-> <<Exception("runtime_error", "attempted to call a non-function", obj.type)>>,
          call_result |-> CallResult(<<>>, nullopt)]
    ELSE IF obj.val = "fail"
    THEN [thrown |-> <<Exception("runtime_error", "fail", <<>>)>>,
          call_result |-> CallResult(<<>>, nullopt)]
    ELSE IF obj.val \in {"probe", "rebind"}
    THEN [thrown |-> <<>>, call_result |-> CallResult(arguments, nullopt)]
    ELSE IF obj.val = "get"
    THEN IF arguments = <<>> \/ arguments[1].type # "string"
         THEN [thrown |-> <<Exception("runtime_error", "bad argument", <<>>)>>,
               call_result |-> CallResult(<<>>, nullopt)]
         ELSE got(CallContext_get(ctx, arguments[1].val))
    ELSE IF obj.val = "change"
    THEN [thrown |-> <<>>,
          call_result |->
              CallResult(arguments,
                         IF arguments = <<>> THEN nullopt
                         ELSE force(arguments[1], arguments[1]))]
    ELSE [thrown |-> <<>>, call_result |-> CallResult(<<>>, nullopt)]

\* Value::call(ctx): [thrown, call_result, environment], environment being the
\* Environment of ctx after the call
ValueCall(obj, ctx) ==
    [thrown |-> NativeResult(obj, ctx).thrown,
     call_result |-> NativeResult(obj, ctx).call_result,
     environment |-> NativeEffect(obj, ctx)]

(* ------------------------------ evaluator ------------------------------ *)
(* Every visit operator returns [result, env, exc]. The result of a visit  *)
(* the code stores in a local variable is handed on as the argument of a   *)
(* local operator, which is the rest of the method after that statement.   *)

RECURSIVE visit_statement(_, _), visit_do_statement(_, _), do_statement_body(_, _, _, _, _),
          visit_if_statement(_, _), visit_if_arm(_, _, _), if_arm_body(_, _, _, _, _),
          if_elseif_blocks(_, _, _, _), if_else_block(_, _, _, _),
          visit_elseif_statement(_, _), elseif_body(_, _, _, _, _),
          visit_else_statement(_, _), else_body(_, _, _, _, _),
          visit_while_statement(_, _), while_loop(_, _, _, _), while_body(_, _, _, _, _, _),
          visit_repeat_until_statement(_, _), repeat_loop(_, _, _, _),
          repeat_body(_, _, _, _, _, _), repeat_condition(_, _, _, _, _, _),
          visit_return_statement(_, _), return_values(_, _, _, _, _),
          visit_variable_declaration(_, _), visit_local_variable_declaration(_, _),
          visit_expression(_, _), visit_binary_operation(_, _), visit_unary_operation(_, _),
          visit_function_call(_, _), call_arguments(_, _, _, _),
          root_children(_, _, _, _)

\* visit_identifier: the identifier's text
visit_identifier(node, e) ==
    [name |-> node.text, env |-> trace_exit_node(trace_enter_node(e, node), node, "")]

\* visit_variable_declarator: the name of its identifier (it traces no exit)
visit_variable_declarator(node, e) ==
    visit_identifier(node.kids[1], trace_enter_node(e, node))

\* a visit_root whose loop goes on after a child returned
root_children_past_return(node, i, res, e) ==
    LET with_sub_result(sub) ==
            IF Failed(sub) THEN sub
            ELSE root_children(node, i + 1, combine(res, sub.result), sub.env)
    IN  IF i > Len(node.kids)
        THEN Ok(res, trace_exit_node(e, node, ""))
        ELSE with_sub_result(visit_statement(node.kids[i], e))

\* visit_root's loop over node.children(), from the i-th child on
root_children(node, i, res, e) ==
    LET with_sub_result(sub) ==
            LET r == combine(res, sub.result)
            IN  IF Failed(sub) THEN sub
                ELSE IF has_value(r.do_return)
                THEN Ok(r, trace_exit_node(sub.env, node, ""))
                ELSE root_children(node, i + 1, r, sub.env)
    IN  IF i > Len(node.kids)
        THEN Ok(res, trace_exit_node(e, node, ""))
        ELSE with_sub_result(visit_statement(node.kids[i], e))

visit_root(node, e) == root_children(node, 1, EvalResult0, trace_enter_node(e, node))

\* a break statement that raises no do_break
visit_break_statement_without_signal(node, e) ==
    Ok(EvalResult0, trace_exit_node(trace_enter_node(e, node), node, ""))

visit_break_statement(node, e) ==
    Ok([EvalResult0 EXCEPT !.do_break = TRUE],
       trace_exit_node(trace_enter_node(e, node), node, ""))

\* EvalResult(const CallResult&) applied to what visit_function_call returned
call_to_result(c) ==
    IF Failed(c) THEN c ELSE Ok(EvalResultOfCall(c.result), c.env)

visit_statement(node, e) ==
    LET with_result(sub) ==
            IF Failed(sub) THEN sub
            ELSE Ok(IF ~has_value(sub.result.do_return)
                    THEN [sub.result EXCEPT !.value = Nil]
                    ELSE sub.result,
                    trace_exit_node(sub.env, node, ""))
        e0 == trace_enter_node(e, node)
    IN  with_result(
            CASE node.type = "variable_declaration" -> visit_variable_declaration(node, e0)
              [] node.type = "local_variable_declaration" ->
                     visit_local_variable_declaration(node, e0)
              [] node.type = "do_statement" -> visit_do_statement(node, e0)
              [] node.type = "if_statement" -> visit_if_statement(node, e0)
              [] node.type = "while_statement" -> visit_while_statement(node, e0)
              [] node.type = "repeat_statement" -> visit_repeat_until_statement(node, e0)
              [] node.type = "break_statement" -> visit_break_statement(node, e0)
              [] node.type = "return_statement" -> visit_return_statement(node, e0)
              [] node.type = "function_call" -> call_to_result(visit_function_call(node, e0))
              [] should_ignore_node(node) -> Ok(EvalResult0, e0)
              [] OTHER -> Throw(UNIMPLEMENTED(node.type), e0))

\* the statements of a do block from position pos on; depth is the enclosing Env's
do_statement_body(node, pos, res, block_env, depth) ==
    LET with_body(body) ==
            LET r == combine(res, body.result)
            IN  IF Failed(body) THEN [body EXCEPT !.env = exit_block(depth, @)]
                ELSE IF r.do_break
                THEN Ok(r, exit_block(depth, trace_exit_node(body.env, node, "break")))
                ELSE IF has_value(r.do_return)
                THEN Ok(r, exit_block(depth, trace_exit_node(body.env, node, "return")))
                ELSE IF ~has_next_sibling(node, pos)
                THEN Throw(InterpreterException(
                               "syntax error: found no end node of if statement", <<>>),
                           exit_block(depth, body.env))
                ELSE do_statement_body(node, pos + 1, r, body.env, depth)
    IN  IF node.kids[pos].type = "end"
        THEN Ok(res, exit_block(depth, trace_exit_node(block_env, node, "")))
        ELSE with_body(visit_statement(node.kids[pos], block_env))

visit_do_statement(node, e) ==
    LET e0 == trace_enter_node(e, node)
    IN  IF Len(node.kids) < 2
        THEN Ok(EvalResult0, e0)
        ELSE do_statement_body(node, 2, EvalResult0, enter_block(e0), depth_of(e0))

\* visit_if_arm's loop; the cursor is at position pos of the if statement
if_arm_body(node, pos, res, block_env, depth) ==
    LET with_body(body) ==
            LET r == combine(res, body.result)
            IN  IF Failed(body) THEN [body EXCEPT !.env = exit_block(depth, @)]
                ELSE IF r.do_break \/ has_value(r.do_return)
                THEN Ok(r, exit_block(depth, body.env))
                ELSE IF ~has_next_sibling(node, pos)
                THEN Throw(InterpreterException(
                               "syntax error: found no end node of if statement", <<>>),
                           exit_block(depth, body.env))
                ELSE if_arm_body(node, pos + 1, r, body.env, depth)
    IN  IF node.kids[pos].type \in {"end", "elseif", "else"}
        THEN Ok(res, exit_block(depth, block_env))
        ELSE with_body(visit_statement(node.kids[pos], block_env))

visit_if_arm(node, pos, e) ==
    if_arm_body(node, pos, EvalResult0, enter_block(e), depth_of(e))

\* the last check of visit_if_statement: the statement ends with an end token
if_last_node(node, res, e) ==
    IF node.kids[Len(node.kids)].type # "end"
    THEN Throw(InterpreterException("Last node of if is not end", node.kids[Len(node.kids)].type), e)
    ELSE Ok(res, trace_exit_node(e, node, ""))

\* the else block of visit_if_statement; the cursor is at position pos
if_else_block(node, pos, res, e) ==
    LET with_else_result(else_result) ==
            LET r == combine(res, else_result.result)
            IN  IF Failed(else_result) THEN else_result
                ELSE IF r.do_break
                THEN Ok(r, trace_exit_node(else_result.env, node, "break"))
                ELSE IF has_value(r.do_return)
                THEN Ok(r, trace_exit_node(else_result.env, node, "return"))
                ELSE if_last_node(node, r, else_result.env)
    IN  IF node.kids[pos].type = "else"
        THEN with_else_result(visit_else_statement(node.kids[pos], e))
        ELSE if_last_node(node, res, e)

\* a loop over the elseif blocks that goes on after a block was executed
if_elseif_blocks_past_executed(node, pos, res, e) ==
    LET with_elseif_result(p) ==
            LET r == combine(res, p.r.result)
            IN  IF Failed(p.r) THEN p.r
                ELSE IF has_next_sibling(node, pos)
                THEN if_elseif_blocks(node, pos + 1, r, p.r.env)
                ELSE if_else_block(node, pos, r, p.r.env)
    IN  IF node.kids[pos].type # "elseif"
        THEN if_else_block(node, pos, res, e)
        ELSE with_elseif_result(visit_elseif_statement(node.kids[pos], e))

\* the do/while loop over the elseif blocks of visit_if_statement
if_elseif_blocks(node, pos, res, e) ==
    LET with_elseif_result(p) ==
            LET r == combine(res, p.r.result)
            IN  IF Failed(p.r) THEN p.r
                ELSE IF p.was_executed
                THEN Ok(r, trace_exit_node(p.r.env, node, ""))
                ELSE IF has_next_sibling(node, pos)
                THEN if_elseif_blocks(node, pos + 1, r, p.r.env)
                ELSE if_else_block(node, pos, r, p.r.env)
    IN  IF node.kids[pos].type # "elseif"
        THEN if_else_block(node, pos, res, e)
        ELSE with_elseif_result(visit_elseif_statement(node.kids[pos], e))

visit_if_statement(node, e) ==
    LET condition_node == node.kids[2]
        cursor == skip_n_siblings(node, 1, 3).pos
        with_then_result(res, then_result) ==
            IF Failed(then_result) THEN then_result
            ELSE Ok(combine(res, then_result.result),
                    trace_exit_node(then_result.env, node, ""))
        with_condition_result(condition_result) ==
            LET res == combine(EvalResult0, condition_result.result)
            IN  IF Failed(condition_result) THEN condition_result
                ELSE IF Truthy(condition_result.result.value)
                THEN with_then_result(res, visit_if_arm(node, cursor, condition_result.env))
                ELSE if_elseif_blocks(node, skip_body(node, cursor), res,
                                      condition_result.env)
    IN  with_condition_result(
            visit_expression(condition_node.kids[1], trace_enter_node(e, node)))

\* the do/while loop over the body of an elseif
elseif_body(node, pos, res, block_env, depth) ==
    LET with_body(body) ==
            LET r == combine(res, body.result)
            IN  IF Failed(body) THEN [body EXCEPT !.env = exit_block(depth, @)]
                ELSE IF r.do_break
                THEN Ok(r, exit_block(depth, trace_exit_node(body.env, node, "break")))
                ELSE IF has_value(r.do_return)
                THEN Ok(r, exit_block(depth, trace_exit_node(body.env, node, "return")))
                ELSE IF has_next_sibling(node, pos)
                THEN elseif_body(node, pos + 1, r, body.env, depth)
                ELSE Ok(r, exit_block(depth, trace_exit_node(body.env, node, "")))
    IN  with_body(visit_statement(node.kids[pos], block_env))

\* visit_elseif_statement: [r, was_executed]
visit_elseif_statement(node, e) ==
    LET condition_node == node.kids[2]
        with_condition_result(condition_result) ==
            LET res == combine(EvalResult0, condition_result.result)
            IN  IF Failed(condition_result)
                THEN [r |-> condition_result, was_executed |-> FALSE]
                ELSE IF ~Truthy(condition_result.result.value)
                THEN [r |-> Ok(res, condition_result.env), was_executed |-> FALSE]
                ELSE IF skip_n_siblings(node, 1, 3).skipped < 3
                THEN [r |-> Ok(res, condition_result.env), was_executed |-> TRUE]
                ELSE [r |-> elseif_body(node, 4, res, enter_block(condition_result.env),
                                        depth_of(condition_result.env)),
                      was_executed |-> TRUE]
    IN  with_condition_result(
            visit_expression(condition_node.kids[1], trace_enter_node(e, node)))

\* the do/while loop over the body of an else
else_body(node, pos, res, block_env, depth) ==
    LET with_body(body) ==
            LET r == combine(res, body.result)
            IN  IF Failed(body) THEN [body EXCEPT !.env = exit_block(depth, @)]
                ELSE IF r.do_break
                THEN Ok(r, exit_block(depth, trace_exit_node(body.env, node, "break")))
                ELSE IF has_value(r.do_return)
                THEN Ok(r, exit_block(depth, trace_exit_node(body.env, node, "return")))
                ELSE IF has_next_sibling(node, pos)
                THEN else_body(node, pos + 1, r, body.env, depth)
                ELSE Ok(r, exit_block(depth, trace_exit_node(body.env, node, "")))
    IN  with_body(visit_statement(node.kids[pos], block_env))

visit_else_statement(node, e) ==
    LET e0 == trace_enter_node(e, node)
    IN  IF Len(node.kids) < 2
        THEN Ok(EvalResult0, e0)
        ELSE else_body(node, 2, EvalResult0, enter_block(e0), depth_of(e0))


\* a while body that leaves do_break set when a break ends the loop
while_body_keeping_break(node, pos, res, block_env, depth, iter) ==
    LET with_body(body) ==
            LET r == combine(res, body.result)
            IN  IF Failed(body) THEN [body EXCEPT !.env = exit_block(depth, @)]
                ELSE IF r.do_break
                THEN Ok(r, exit_block(depth, trace_exit_node(body.env, node, "break")))
                ELSE IF has_value(r.do_return)
                THEN Ok(r, exit_block(depth, trace_exit_node(body.env, node, "return")))
                ELSE IF has_next_sibling(node, pos)
                THEN while_body(node, pos + 1, r, body.env, depth, iter)
                ELSE while_loop(node, r, exit_block(depth, body.env), iter + 1)
    IN  IF node.kids[pos].type = "end"
        THEN while_loop(node, res, exit_block(depth, block_env), iter + 1)
        ELSE with_body(visit_statement(node.kids[pos], block_env))

\* the body of one iteration of a while loop, from position pos on
while_body(node, pos, res, block_env, depth, iter) ==
    LET with_body(body) ==
            LET r == combine(res, body.result)
            IN  IF Failed(body) THEN [body EXCEPT !.env = exit_block(depth, @)]
                ELSE IF r.do_break
                THEN Ok([r EXCEPT !.do_break = FALSE],
                        exit_block(depth, trace_exit_node(body.env, node, "break")))
                ELSE IF has_value(r.do_return)
                THEN Ok(r, exit_block(depth, trace_exit_node(body.env, node, "return")))
                ELSE IF has_next_sibling(node, pos)
                THEN while_body(node, pos + 1, r, body.env, depth, iter)
                ELSE while_loop(node, r, exit_block(depth, body.env), iter + 1)
    IN  IF node.kids[pos].type = "end"
        THEN while_loop(node, res, exit_block(depth, block_env), iter + 1)
        ELSE with_body(visit_statement(node.kids[pos], block_env))

\* the while (true) loop of visit_while_statement; iter counts the iterations done
while_loop(node, res, e, iter) ==
    LET condition_node == node.kids[2]
        with_condition_result(condition_result) ==
            LET r == combine(res, condition_result.result)
            IN  IF Failed(condition_result) THEN condition_result
                ELSE IF ~Truthy(condition_result.result.value)
                THEN Ok(r, condition_result.env)
                ELSE IF skip_n_siblings(node, 1, 3).skipped < 3
                THEN Ok(r, condition_result.env)
                ELSE IF iter >= MaxIter
                THEN Throw(NonTermination, condition_result.env)
                ELSE while_body(node, 4, r, enter_block(condition_result.env),
                                depth_of(condition_result.env), iter)
    IN  with_condition_result(visit_expression(condition_node.kids[1], e))

visit_while_statement(node, e) ==
    while_loop(node, EvalResult0, trace_enter_node(e, node), 0)

\* an until condition evaluated in the enclosing scope, after the body's scope ended
repeat_condition_in_enclosing_scope(node, pos, res, block_env, depth, iter) ==
    LET with_condition_result(condition_result) ==
            LET r == combine(res, condition_result.result)
            IN  IF Failed(condition_result) THEN condition_result
                ELSE IF Truthy(condition_result.result.value)
                THEN Ok(r, condition_result.env)
                ELSE repeat_loop(node, r, condition_result.env, iter + 1)
    IN  IF ~has_next_sibling(node, pos)
        THEN Throw(InterpreterException("syntax error at end of repeat until block", <<>>),
                   exit_block(depth, block_env))
        ELSE with_condition_result(
                 visit_expression(node.kids[pos + 1].kids[1], exit_block(depth, block_env)))

\* the until condition of a repeat loop; the cursor is at position pos (the until token)
repeat_condition(node, pos, res, block_env, depth, iter) ==
    LET with_condition_result(condition_result) ==
            LET r == combine(res, condition_result.result)
            IN  IF Failed(condition_result)
                THEN [condition_result EXCEPT !.env = exit_block(depth, @)]
                ELSE IF Truthy(condition_result.result.value)
                THEN Ok(r, exit_block(depth, condition_result.env))
                ELSE repeat_loop(node, r, exit_block(depth, condition_result.env), iter + 1)
    IN  IF ~has_next_sibling(node, pos)
        THEN Throw(InterpreterException("syntax error at end of repeat until block", <<>>),
                   exit_block(depth, block_env))
        ELSE with_condition_result(
                 visit_expression(node.kids[pos + 1].kids[1], block_env))

\* the body of one iteration of a repeat loop, from position pos on
repeat_body(node, pos, res, block_env, depth, iter) ==
    LET with_body(body) ==
            LET r == combine(res, body.result)
            IN  IF Failed(body) THEN [body EXCEPT !.env = exit_block(depth, @)]
                ELSE IF r.do_break
                THEN Ok([r EXCEPT !.do_break = FALSE],
                        exit_block(depth, trace_exit_node(body.env, node, "break")))
                ELSE IF has_value(r.do_return)
                THEN Ok(r, exit_block(depth, trace_exit_node(body.env, node, "return")))
                ELSE IF has_next_sibling(node, pos)
                THEN repeat_body(node, pos + 1, r, body.env, depth, iter)
                ELSE repeat_condition(node, pos, r, body.env, depth, iter)
    IN  IF node.kids[pos].type = "until"
        THEN repeat_condition(node, pos, res, block_env, depth, iter)
        ELSE with_body(visit_statement(node.kids[pos], block_env))

\* the while (true) loop of visit_repeat_until_statement
repeat_loop(node, res, e, iter) ==
    IF iter >= MaxIter
    THEN Throw(NonTermination, e)
    ELSE IF ~has_next_sibling(node, 1)
    THEN Throw(InterpreterException("syntax error at start of repeat until block", <<>>), e)
    ELSE repeat_body(node, 2, res, enter_block(e), depth_of(e), iter)

visit_repeat_until_statement(node, e) ==
    repeat_loop(node, EvalResult0, trace_enter_node(e, node), 0)

\* the loop over the returned expressions; the cursor is at position pos
return_values(node, pos, res, values, e) ==
    LET with_sub_result(sub_result) ==
            LET r == combine(res, sub_result.result)
                vals == Append(values, sub_result.result.value)
            IN  IF Failed(sub_result) THEN sub_result
                ELSE IF skip_n_siblings(node, pos, 2).skipped = 2
                THEN return_values(node, pos + 2, r, vals, sub_result.env)
                ELSE Ok([r EXCEPT !.do_return = <<vals>>],
                        trace_exit_node(sub_result.env, node, ""))
    IN  with_sub_result(visit_expression(node.kids[pos], e))

visit_return_statement(node, e) ==
    LET e0 == trace_enter_node(e, node)
        res == [EvalResult0 EXCEPT !.do_return = << <<>> >>]
    IN  IF ~has_next_sibling(node, 1)
        THEN Ok(res, e0)
        ELSE return_values(node, 2, res, <<>>, e0)

\* a declaration that binds the plain value, without its origin
visit_variable_declaration_dropping_origin(node, e) ==
    LET declarator == node.kids[1]
        expr == node.kids[3]
        with_expr_result(expr_result) ==
            LET name == visit_variable_declarator(declarator, expr_result.env)
                e1 == set_var(name.env, name.name,
                              with_origin(expr_result.result.value, NoOrigin))
            IN  IF Failed(expr_result) THEN expr_result
                ELSE Ok(combine(EvalResult0, expr_result.result),
                        trace_exit_node(e1, node, ""))
    IN  with_expr_result(visit_expression(expr, trace_enter_node(e, node)))

visit_variable_declaration(node, e) ==
    LET declarator == node.kids[1]
        expr == node.kids[3]
        with_expr_result(expr_result) ==
            LET name == visit_variable_declarator(declarator, expr_result.env)
                e1 == set_var(name.env, name.name, expr_result.result.value)
            IN  IF Failed(expr_result) THEN expr_result
                ELSE Ok(combine(EvalResult0, expr_result.result),
                        trace_exit_node(e1, node, ""))
    IN  with_expr_result(visit_expression(expr, trace_enter_node(e, node)))

\* a local declaration that assigns like a non-local one
visit_local_variable_declaration_as_assignment(node, e) ==
    LET variable_name == visit_variable_declarator(node.kids[2], trace_enter_node(e, node))
    IN  IF has_value(child(node, 2))
        THEN visit_variable_declaration(
                 [node EXCEPT !.kids = <<node.kids[2], node.kids[3], node.kids[4]>>], e)
        ELSE Ok(EvalResult0,
                trace_exit_node(set_var(variable_name.env, variable_name.name, Nil),
                                node, ""))

\* a local declaration that binds the name (to Nil) before it evaluates the
\* initializer
visit_local_variable_declaration_binding_first(node, e) ==
    LET declarator == node.kids[2]
        variable_name == visit_variable_declarator(declarator, trace_enter_node(e, node))
        bound == set_local(variable_name.env, variable_name.name, Nil)
        with_expr_result(expr_result) ==
            LET e1 == set_local(expr_result.env, variable_name.name,
                                expr_result.result.value)
            IN  IF Failed(expr_result) THEN expr_result
                ELSE Ok(combine(EvalResult0, expr_result.result),
                        trace_exit_node(e1, node, ""))
    IN  IF has_value(child(node, 2))
        THEN with_expr_result(visit_expression(node.kids[4], bound))
        ELSE Ok(EvalResult0, trace_exit_node(bound, node, ""))

visit_local_variable_declaration(node, e) ==
    LET declarator == node.kids[2]
        variable_name == visit_variable_declarator(declarator, trace_enter_node(e, node))
        with_expr_result(expr_result) ==
            LET e1 == set_local(expr_result.env, variable_name.name,
                                expr_result.result.value)
            IN  IF Failed(expr_result) THEN expr_result
                ELSE Ok(combine(EvalResult0, expr_result.result),
                        trace_exit_node(e1, node, ""))
    IN  IF has_value(child(node, 2))
        THEN with_expr_result(visit_expression(node.kids[4], variable_name.env))
        ELSE Ok(EvalResult0,
                trace_exit_node(set_local(variable_name.env, variable_name.name, Nil),
                                node, ""))

visit_expression(node, e) ==
    LET e0 == trace_enter_node(e, node)
        origin == LiteralOrigin(node.range)
        literal(v) == Ok([EvalResult0 EXCEPT !.value = with_origin(v, origin)],
                         trace_exit_node(e0, node, ""))
        string_literal(parsed) ==
            IF parsed.ok THEN literal(parsed.value)
            ELSE Throw(InterpreterException("invalid string literal", <<>>), e0)
        variable(variable_name) ==
            Ok([EvalResult0 EXCEPT !.value = get_var(variable_name.env, variable_name.name)],
               variable_name.env)
        traced(r) == IF Failed(r) THEN r ELSE Ok(r.result, trace_exit_node(r.env, node, ""))
    IN  CASE node.type = "number" -> literal(parse_number_literal(node.text))
          [] node.type = "true" -> literal(Bool(TRUE))
          [] node.type = "false" -> literal(Bool(FALSE))
          [] node.type = "nil" -> literal(Nil)
          [] node.type = "string" -> string_literal(parse_string_literal(node.text))
          [] node.type \in {"identifier", "unary_operation", "binary_operation",
                            "function_call"} ->
                 traced(CASE node.type = "identifier" -> variable(visit_identifier(node, e0))
                          [] node.type = "unary_operation" -> visit_unary_operation(node, e0)
                          [] node.type = "binary_operation" -> visit_binary_operation(node, e0)
                          [] OTHER -> call_to_result(visit_function_call(node, e0)))
          [] OTHER -> Throw(UNIMPLEMENTED(node.type), e0)

visit_binary_operation(node, e) ==
    LET origin == node.range
        lhs_node == node.kids[1]
        operator_node == node.kids[2]
        rhs_node == node.kids[3]
        with_value(rhs_result, value) ==
            IF ~value.ok
            THEN Throw(Exception("runtime_error", value.what, <<>>), rhs_result.env)
            ELSE Ok([combine(EvalResult0, rhs_result.result) EXCEPT !.value = value.value],
                    trace_exit_node(rhs_result.env, node, ""))
        with_rhs_result(lhs_result, rhs_result) ==
            IF Failed(rhs_result) THEN rhs_result
            ELSE IF operator_node.type \notin
                        {"==", "~=", ">=", ">", "<=", "<", "+", "-", "*", "/", "^", "%",
                         "&", "|", "and", "or", ".."}
            THEN Throw(InterpreterException("encountered unknown binary operator",
                                            operator_node.type),
                       rhs_result.env)
            ELSE with_value(rhs_result,
                            ValueBinary(operator_node.type, lhs_result.result.value,
                                        rhs_result.result.value, origin))
        with_lhs_result(lhs_result) ==
            IF Failed(lhs_result) THEN lhs_result
            ELSE with_rhs_result(lhs_result, visit_expression(rhs_node, lhs_result.env))
    IN  with_lhs_result(visit_expression(lhs_node, trace_enter_node(e, node)))

visit_unary_operation(node, e) ==
    LET operator_node == node.kids[1]
        expr == node.kids[2]
        with_value(sub, value) ==
            IF ~value.ok
            THEN Throw(Exception("runtime_error", value.what, <<>>), sub.env)
            ELSE Ok([sub.result EXCEPT !.value = value.value],
                    trace_exit_node(sub.env, node, ""))
        with_result(sub) ==
            IF Failed(sub) THEN sub
            ELSE IF operator_node.type \notin {"-", "not", "#"}
            THEN Throw(InterpreterException("encountered unknown unary operator",
                                            operator_node.type),
                       sub.env)
            ELSE with_value(sub, ValueUnary(operator_node.type, sub.result.value, node.range))
    IN  with_result(visit_expression(expr, trace_enter_node(e, node)))

\* the loop over the argument nodes; pos is the position of the current argument among
\* the children of the arguments node, past the end when it has no value
call_arguments(arguments_node, pos, arguments, e) ==
    LET with_expr(expr) ==
            IF Failed(expr) THEN expr
            ELSE call_arguments(arguments_node, pos + 2,
                                Append(arguments, expr.result.value), expr.env)
    IN  IF pos > Len(arguments_node.kids)
        THEN Ok(arguments, e)
        ELSE with_expr(visit_expression(arguments_node.kids[pos], e))

\* visit_function_call: its result is a CallResult
visit_function_call(node, e) ==
    LET function_name == visit_identifier(node.kids[named_child_pos(node, 0)],
                                          trace_enter_node(e, node))
        with_call(e1, called) ==
            IF called.thrown # <<>> /\ called.thrown[1].class # "runtime_error"
            THEN Throw(called.thrown[1], e1)
            ELSE IF called.thrown # <<>>
            THEN Throw(InterpreterException(
                           "failed to call",
                           <<function_name.name, node.range, called.thrown[1].what>>),
                       e1)
            ELSE Ok(called.call_result,
                    trace_exit_node(
                        trace_function_call_result(
                            [e1 EXCEPT !.global = called.environment.global],
                            function_name.name, called.call_result),
                        node, ""))
        with_env(arguments, e1) ==
            with_call(e1, ValueCall(get_var(e1, function_name.name),
                                    CallContext(make_environment(e1), arguments.result)))
        with_arguments(arguments) ==
            IF Failed(arguments) THEN arguments
            ELSE with_env(arguments,
                          trace_function_call(arguments.env, function_name.name,
                                              arguments.result))
    IN  with_arguments(call_arguments(node.kids[named_child_pos(node, 1)], 2, <<>>,
                                      function_name.env))

\* a run that hands back the environment it was given when it throws
run_rolling_back(root_node, e) ==
    LET restore(r) == IF Failed(r) THEN [r EXCEPT !.env.scopes = e.scopes,
                                                  !.env.global = e.global]
                      ELSE r
    IN  restore(visit_root(root_node, e))

\* Interpreter::run
run(root_node, e) ==
    LET rethrow(r) ==
            IF ~Failed(r) THEN r
            ELSE IF r.exc[1].class \in {"InterpreterException", "nontermination"} THEN r
            ELSE Throw(InterpreterException("unknown error", <<>>), r.env)
    IN  rethrow(visit_root(root_node, e))


(* ---------------------------- syntax trees ----------------------------- *)
(* The trees the parser hands to the evaluator, built with the child       *)
(* layout the visit methods rely on.                                       *)

Node(type, kids) == [type |-> type, kids |-> kids, text |-> <<>>, range |-> <<>>]

Token(type) == Node(type, <<>>)

Leaf(type, text) == [type |-> type, kids |-> <<>>, text |-> text, range |-> <<>>]

\* the parser's ranges: every node gets its position in the tree
RECURSIVE Locate(_, _)
Locate(node, path) ==
    [node EXCEPT !.range = path,
                 !.kids = [i \in 1..Len(node.kids) |-> Locate(node.kids[i], Append(path, i))]]

\* e1 , e2 , ... , en as children
RECURSIVE CommaList(_)
CommaList(exprs) ==
    IF Len(exprs) <= 1 THEN exprs
    ELSE <<exprs[1], Token(",")>> \o CommaList(Tail(exprs))

NumberLit(digits) == Leaf("number", digits)

TrueLit == Leaf("true", <<"t", "r", "u", "e">>)

FalseLit == Leaf("false", <<"f", "a", "l", "s", "e">>)

NilLit == Leaf("nil", <<"n", "i", "l">>)

StringLit(chars) == Leaf("string", <<"\"">> \o chars \o <<"\"">>)

\* the text of an identifier is its name, one lexical unit
Identifier(name) == Leaf("identifier", <<name>>)

BinaryOperation(lhs, op, rhs) == Node("binary_operation", <<lhs, Token(op), rhs>>)

UnaryOperation(op, expr) == Node("unary_operation", <<Token(op), expr>>)

Arguments(args) == Node("arguments", <<Token("(")>> \o CommaList(args) \o <<Token(")")>>)

FunctionCall(name, args) == Node("function_call", <<Identifier(name), Arguments(args)>>)

ConditionExpression(expr) == Node("condition_expression", <<expr>>)

VariableDeclarator(name) == Node("variable_declarator", <<Identifier(name)>>)

VariableDeclaration(name, expr) ==
    Node("variable_declaration", <<VariableDeclarator(name), Token("="), expr>>)

LocalVariableDeclaration(name, expr) ==
    Node("local_variable_declaration",
         <<Token("local"), VariableDeclarator(name), Token("="), expr>>)

DoStatement(body) == Node("do_statement", <<Token("do")>> \o body \o <<Token("end")>>)

ElseIf(cond, body) ==
    Node("elseif", <<Token("elseif"), ConditionExpression(cond), Token("then")>> \o body)

Else(body) == Node("else", <<Token("else")>> \o body)

\* elseifs: a sequence of ElseIf nodes; else_block: <<>> or <<Else(...)>>
IfStatement(cond, body, elseifs, else_block) ==
    Node("if_statement",
         <<Token("if"), ConditionExpression(cond), Token("then")>>
             \o body \o elseifs \o else_block \o <<Token("end")>>)

WhileStatement(cond, body) ==
    Node("while_statement",
         <<Token("while"), ConditionExpression(cond), Token("do")>> \o body \o <<Token("end")>>)

RepeatStatement(body, cond) ==
    Node("repeat_statement",
         <<Token("repeat")>> \o body \o <<Token("until"), ConditionExpression(cond)>>)

BreakStatement == Node("break_statement", <<Token("break")>>)

ReturnStatement(exprs) == Node("return_statement", <<Token("return")>> \o CommaList(exprs))

\* for var = e1, e2 [, e3] do body end
ForStatement(var, exprs, body) ==
    Node("for_statement",
         <<Token("for"),
           Node("loop_expression", <<Identifier(var), Token("=")>> \o CommaList(exprs)),
           Token("do")>> \o body \o <<Token("end")>>)

\* function name(params) body end
FunctionStatement(name, params, body) ==
    Node("function",
         <<Token("function"),
           Node("function_name", <<Identifier(name)>>),
           Node("parameters",
                <<Token("(")>> \o CommaList([i \in 1..Len(params) |-> Identifier(params[i])])
                    \o <<Token(")")>>)>>
             \o body \o <<Token("end")>>)

Program(statements) == Locate(Node("program", statements), <<>>)


(* ------------------------------ programs ------------------------------- *)
(* The source programs the interpreter is run on.                          *)

\* the literal of a one-digit number
Num(n) == NumberLit(<<DigitChar(n)>>)

\* literals used as conditions: two falsy, two truthy (0 is truthy in Lua)
ConditionLiterals == {NilLit, FalseLit, TrueLit, Num(0)}

LiteralTruthy(lit) == lit.type \notin {"nil", "false"}

\* skipped = 1, after = 1: markers that show whether control got there
Skipped == VariableDeclaration("skipped", Num(1))

After == VariableDeclaration("after", Num(1))

\* statement s, followed by a marker, inside a block of the given kind that runs once
Wrap(kind, s) ==
    CASE kind = "do" -> DoStatement(<<s, Skipped>>)
      [] kind = "then" -> IfStatement(TrueLit, <<s, Skipped>>, <<>>, <<>>)
      [] kind = "elseif" ->
             IfStatement(FalseLit, <<Skipped>>, <<ElseIf(TrueLit, <<s, Skipped>>)>>, <<>>)
      [] kind = "else" -> IfStatement(FalseLit, <<Skipped>>, <<>>, <<Else(<<s, Skipped>>)>>)
      [] kind = "while" -> WhileStatement(TrueLit, <<s, Skipped>>)
      [] kind = "repeat" -> RepeatStatement(<<s, Skipped>>, FalseLit)

\* s inside blocks of kinds[i], kinds[i+1], ... from the outside in
RECURSIVE Nest(_, _, _)
Nest(kinds, i, s) ==
    IF i > Len(kinds) THEN s ELSE Wrap(kinds[i], Nest(kinds, i + 1, s))

\* the sequences over K of length at most d
KindSeqs(K, d) == UNION {[1..n -> K] : n \in 0..d}

\* while true do break end done = 1
Scenario6 ==
    Program(<<WhileStatement(TrueLit, <<BreakStatement>>), VariableDeclaration("done", Num(1))>>)

\* if 2 > 1 then y = "a" else y = "b" end
Scenario2 ==
    Program(<<IfStatement(BinaryOperation(Num(2), ">", Num(1)),
                          <<VariableDeclaration("y", StringLit(<<"a">>))>>,
                          <<>>,
                          <<Else(<<VariableDeclaration("y", StringLit(<<"b">>))>>)>>)>>)

\* local s = 0 for i = 1, 5 do s = s + i end
Scenario3 ==
    Program(<<LocalVariableDeclaration("s", Num(0)),
              ForStatement("i", <<Num(1), Num(5)>>,
                           <<VariableDeclaration("s",
                                 BinaryOperation(Identifier("s"), "+", Identifier("i")))>>)>>)

\* function f(a, b) return a * b end z = f(3, 4)
Scenario4 ==
    Program(<<FunctionStatement("f", <<"a", "b">>,
                  <<ReturnStatement(<<BinaryOperation(Identifier("a"), "*", Identifier("b"))>>)>>),
              VariableDeclaration("z", FunctionCall("f", <<Num(3), Num(4)>>))>>)

\* the programs, each named by its family and the parameters that generate it
Sources ==
    {[family |-> "short_circuit", lit |-> lit, op |-> op] :
         lit \in ConditionLiterals, op \in {"and", "or"}}
    \cup {[family |-> "top_break", kinds |-> kinds] :
              kinds \in KindSeqs({"do", "then", "elseif", "else"}, MaxDepth)}
    \cup {[family |-> "loop_break", loop |-> loop, kinds |-> kinds, context |-> context] :
              loop \in {"while", "repeat"},
              kinds \in KindSeqs({"do", "then", "elseif", "else"}, MaxDepth),
              context \in {"last", "then", "outer"}}
    \cup {[family |-> "scenario6"]}
    \cup {[family |-> "return", kinds |-> kinds, exprs |-> exprs] :
              kinds \in KindSeqs({"do", "then", "elseif", "else", "while", "repeat"}, MaxDepth),
              exprs \in {<<>>, <<Num(5)>>, <<Num(5), TrueLit>>}}
    \cup {[family |-> "if", conds |-> conds, has_else |-> has_else] :
              conds \in UNION {[1..k -> ConditionLiterals] : k \in 1..MaxArms},
              has_else \in BOOLEAN}
    \cup {[family |-> "scenario2"]}
    \cup {[family |-> "while_scope", k |-> k] : k \in 0..MaxIter}
    \cup {[family |-> "while_condition", k |-> k] : k \in 1..MaxIter}
    \cup {[family |-> "repeat_scope", k |-> k] : k \in 1..MaxIter}
    \cup {[family |-> "repeat_once", lit |-> lit] :
              lit \in {l \in ConditionLiterals : LiteralTruthy(l)}}
    \cup {[family |-> "scenario3"]}
    \cup {[family |-> "for", start |-> start, stop |-> stop] :
              start \in 0..2, stop \in 0..2}
    \cup {[family |-> "scenario4"]}
    \cup {[family |-> "arity", k |-> k] : k \in 1..3}
    \cup {[family |-> "source_change", position |-> position, more |-> more] :
              position \in {"statement", "declaration", "lhs", "rhs", "both", "unary",
                            "argument"},
              more \in BOOLEAN}
    \cup {[family |-> "declaration", chunk |-> chunk, mid |-> mid, local |-> local,
            kinds |-> kinds] :
              chunk \in {"none", "global", "local"}, mid \in BOOLEAN, local \in BOOLEAN,
              kinds \in KindSeqs({"do", "then", "elseif", "else"}, MaxDepth)}
    \cup {[family |-> "error", k |-> k, failure |-> failure, kinds |-> kinds] :
              k \in 1..3,
              failure \in {"call", "lookup", "not_callable", "operator", "unimplemented"},
              kinds \in KindSeqs({"do", "then", "elseif", "else", "while", "repeat"},
                                 MaxDepth)}
    \cup {[family |-> "unbound", through |-> through, kinds |-> kinds] :
              through \in {"identifier", "context"},
              kinds \in KindSeqs({"do", "then", "elseif", "else"}, MaxDepth)}
    \cup {[family |-> "return_list", calls |-> calls] :
              calls \in UNION {[1..k -> [fn : {"probe", "nop"}, n : 1..2]] : k \in 1..2}}
    \cup {[family |-> "local", prior |-> prior, init |-> init, block |-> block,
            kinds |-> kinds] :
              prior \in {"none", "global", "local"},
              init \in {"none", "name", "call", "sum"},
              block \in BOOLEAN,
              kinds \in KindSeqs({"do", "then", "elseif", "else"}, MaxDepth)}
    \cup {[family |-> "call", fn |-> fn, n |-> n, statement |-> statement] :
              fn \in {"probe", "nop"}, n \in 0..MaxLen, statement \in BOOLEAN}
    \cup {[family |-> "callee", n |-> n, rebinding |-> rebinding] :
              n \in 1..MaxLen, rebinding \in 0..MaxLen}
    \cup {[family |-> "force", returned |-> returned, op |-> "literal", lit |-> lit] :
              returned \in BOOLEAN,
              lit \in {Num(4), NumberLit(<<"4", "2">>), FalseLit, NilLit, StringLit(<<"b">>)}}
    \cup {[family |-> "force", returned |-> returned, op |-> op, lhs |-> lhs, rhs |-> rhs] :
              returned \in BOOLEAN, op \in {"+", "-"}, lhs \in 0..3, rhs \in 0..3}

\* the syntax tree the parser builds for a source
TreeOf(s) ==
    LET \* n = n + 1
        Increment(n) ==
            VariableDeclaration(n, BinaryOperation(Identifier(n), "+", Num(1)))
        \* r = <lit> and probe(7)   /   r = <lit> or probe(7)
        ShortCircuitProgram(lit, op) ==
            Program(<<VariableDeclaration(
                          "r", BinaryOperation(lit, op, FunctionCall("probe", <<Num(7)>>)))>>)
        \* a break outside every loop, inside the blocks kinds, then after = 1
        TopBreakProgram(kinds) == Program(<<Nest(kinds, 1, BreakStatement), After>>)
        \* a loop that only a break ends; the break is inside the blocks kinds
        BreakLoop(loop, kinds) ==
            IF loop = "while"
            THEN WhileStatement(TrueLit, <<Nest(kinds, 1, BreakStatement), Skipped>>)
            ELSE RepeatStatement(<<Nest(kinds, 1, BreakStatement), Skipped>>, FalseLit)
        \* the loop as the last statement, followed by after = 1, or as the body of
        \* n = 0 while n < 2 do <loop> n = n + 1 end after = 1
        LoopBreakProgram(loop, kinds, context) ==
            CASE context = "last" -> Program(<<BreakLoop(loop, kinds)>>)
              [] context = "then" -> Program(<<BreakLoop(loop, kinds), After>>)
              [] context = "outer" ->
                     Program(<<VariableDeclaration("n", Num(0)),
                               WhileStatement(BinaryOperation(Identifier("n"), "<", Num(2)),
                                              <<BreakLoop(loop, kinds), Increment("n")>>),
                               After>>)
        \* a return inside the blocks and loops kinds, then after = 1
        ReturnProgram(kinds, exprs) ==
            Program(<<Nest(kinds, 1, ReturnStatement(exprs)), After>>)
        \* r = k
        Arm(k) == VariableDeclaration("r", Num(k))
        \* if c1 then r = 1 elseif c2 then r = 2 ... [else r = 0] end
        IfProgram(conds, has_else) ==
            Program(<<IfStatement(
                          conds[1], <<Arm(1)>>,
                          [j \in 1..(Len(conds) - 1) |-> ElseIf(conds[j + 1], <<Arm(j + 1)>>)],
                          IF has_else THEN <<Else(<<Arm(0)>>)>> ELSE <<>>)>>)
        \* local i = 0 while i < k do seen = y local y = 1 i = i + 1 end aft = y fin = i
        WhileScopeProgram(k) ==
            Program(<<LocalVariableDeclaration("i", Num(0)),
                      WhileStatement(BinaryOperation(Identifier("i"), "<", Num(k)),
                                     <<VariableDeclaration("seen", Identifier("y")),
                                       LocalVariableDeclaration("y", Num(1)),
                                       Increment("i")>>),
                      VariableDeclaration("aft", Identifier("y")),
                      VariableDeclaration("fin", Identifier("i"))>>)
        \* n = 0 while not y do local y = 1 n = n + 1 if n == k then break end end
        WhileConditionProgram(k) ==
            Program(<<VariableDeclaration("n", Num(0)),
                      WhileStatement(UnaryOperation("not", Identifier("y")),
                                     <<LocalVariableDeclaration("y", Num(1)),
                                       Increment("n"),
                                       IfStatement(
                                           BinaryOperation(Identifier("n"), "==", Num(k)),
                                           <<BreakStatement>>, <<>>, <<>>)>>)>>)
        \* n = 0 repeat n = n + 1 local d = n == k until d aft = d
        RepeatScopeProgram(k) ==
            Program(<<VariableDeclaration("n", Num(0)),
                      RepeatStatement(<<Increment("n"),
                                        LocalVariableDeclaration(
                                            "d", BinaryOperation(Identifier("n"), "==", Num(k)))>>,
                                      Identifier("d")),
                      VariableDeclaration("aft", Identifier("d"))>>)
        \* n = 0 repeat n = n + 1 until <lit>
        RepeatOnceProgram(lit) ==
            Program(<<VariableDeclaration("n", Num(0)),
                      RepeatStatement(<<Increment("n")>>, lit)>>)
        \* c = 0 for i = start, stop, 1 do c = c + 1 end
        ForProgram(start, stop) ==
            Program(<<VariableDeclaration("c", Num(0)),
                      ForStatement("i", <<Num(start), Num(stop), Num(1)>>,
                                   <<Increment("c")>>)>>)
        \* function f(a, b) return b end z = f(1, ..., k): k arguments for two parameters
        ArityProgram(k) ==
            Program(<<FunctionStatement("f", <<"a", "b">>,
                                        <<ReturnStatement(<<Identifier("b")>>)>>),
                      VariableDeclaration("z", FunctionCall("f", [j \in 1..k |-> Num(j)]))>>)
        \* a call of change as a statement, or in r = <expression>, at the position
        \* named; then, with more, change(3) as a second statement
        Change(n) == FunctionCall("change", <<Num(n)>>)
        SourceChangeProgram(position, more) ==
            Program(<<CASE position = "statement" -> Change(1)
                        [] position = "declaration" -> VariableDeclaration("r", Change(1))
                        [] position = "lhs" ->
                               VariableDeclaration("r", BinaryOperation(Change(1), "+", Num(2)))
                        [] position = "rhs" ->
                               VariableDeclaration("r", BinaryOperation(Num(2), "+", Change(1)))
                        [] position = "both" ->
                               VariableDeclaration("r", BinaryOperation(Change(1), "+", Change(2)))
                        [] position = "unary" ->
                               VariableDeclaration("r", UnaryOperation("-", Change(1)))
                        [] position = "argument" ->
                               VariableDeclaration("r", FunctionCall("probe", <<Change(1)>>))>>
                    \o (IF more THEN <<Change(3)>> ELSE <<>>))
        \* [x = 1 | local x = 1]
        \* [do local x = 5] <kinds> do (local x = 2 | x = 2) seen = x end </kinds>
        \* [mid = x end]
        \* aft = x
        DeclarationProgram(chunk, mid, local, kinds) ==
            LET inner == Nest(kinds, 1,
                              DoStatement(<<IF local THEN LocalVariableDeclaration("x", Num(2))
                                            ELSE VariableDeclaration("x", Num(2)),
                                            VariableDeclaration("seen", Identifier("x"))>>))
            IN  Program((CASE chunk = "none" -> <<>>
                           [] chunk = "global" -> <<VariableDeclaration("x", Num(1))>>
                           [] chunk = "local" -> <<LocalVariableDeclaration("x", Num(1))>>)
                        \o <<IF mid
                              THEN DoStatement(<<LocalVariableDeclaration("x", Num(5)), inner,
                                                 VariableDeclaration("mid", Identifier("x"))>>)
                              ELSE inner>>
                        \o <<VariableDeclaration("aft", Identifier("x"))>>)
        \* v1 = 1 local v2 = 2 v3 = 3 with statement k replaced by a statement that
        \* fails, inside the blocks and loops kinds:
        \* fail(1) | get("m") | undefined(1) | r = 1 + true | for i = 1, 2 do end
        ErrorProgram(k, failure, kinds) ==
            LET failing ==
                    CASE failure = "call" -> FunctionCall("fail", <<Num(1)>>)
                      [] failure = "lookup" -> FunctionCall("get", <<StringLit(<<"m">>)>>)
                      [] failure = "not_callable" -> FunctionCall("undefined", <<Num(1)>>)
                      [] failure = "operator" ->
                             VariableDeclaration("r", BinaryOperation(Num(1), "+", TrueLit))
                      [] failure = "unimplemented" ->
                             ForStatement("i", <<Num(1), Num(2)>>, <<>>)
                statements == <<VariableDeclaration("v1", Num(1)),
                                LocalVariableDeclaration("v2", Num(2)),
                                VariableDeclaration("v3", Num(3))>>
            IN  Program([statements EXCEPT ![k] = Nest(kinds, 1, failing)])
        \* r = 1 <kinds> r = m </kinds>  or  r = 1 <kinds> r = get("m") </kinds>:
        \* no variable m exists
        UnboundProgram(through, kinds) ==
            Program(<<VariableDeclaration("r", Num(1)),
                      Nest(kinds, 1,
                           VariableDeclaration(
                               "r", IF through = "identifier" THEN Identifier("m")
                                    ELSE FunctionCall("get", <<StringLit(<<"m">>)>>)))>>)
        \* return f1(...), f2(...): call i has calls[i].n arguments, the numbers
        \* 2 * (i - 1) + 1 and 2 * (i - 1) + 2
        ReturnListProgram(calls) ==
            Program(<<ReturnStatement(
                          [i \in 1..Len(calls) |->
                               FunctionCall(calls[i].fn,
                                            [j \in 1..calls[i].n |-> Num(2 * (i - 1) + j)])])>>)
        \* [x = 1 | local x = 1]
        \* <kinds> [do] local x [= x | = probe(x) | = x + 1]  seen = x  x = 7 [end] </kinds>
        \* aft = x
        LocalProgram(prior, init, block, kinds) ==
            LET declaration ==
                    CASE init = "none" ->
                             Node("local_variable_declaration",
                                  <<Token("local"), VariableDeclarator("x")>>)
                      [] init = "name" -> LocalVariableDeclaration("x", Identifier("x"))
                      [] init = "call" ->
                             LocalVariableDeclaration(
                                 "x", FunctionCall("probe", <<Identifier("x")>>))
                      [] init = "sum" ->
                             LocalVariableDeclaration(
                                 "x", BinaryOperation(Identifier("x"), "+", Num(1)))
                statements == <<declaration, VariableDeclaration("seen", Identifier("x")),
                                VariableDeclaration("x", Num(7))>>
            IN  Program((CASE prior = "none" -> <<>>
                           [] prior = "global" -> <<VariableDeclaration("x", Num(1))>>
                           [] prior = "local" -> <<LocalVariableDeclaration("x", Num(1))>>)
                        \o (IF block THEN <<Nest(kinds, 1, DoStatement(statements))>>
                            ELSE statements)
                        \o <<VariableDeclaration("aft", Identifier("x"))>>)
        \* fn(1, ..., n)  as a statement or in  r = fn(1, ..., n)
        CallProgram(fn, n, statement) ==
            Program(<<IF statement THEN FunctionCall(fn, [j \in 1..n |-> Num(j)])
                      ELSE VariableDeclaration("r",
                                               FunctionCall(fn, [j \in 1..n |-> Num(j)]))>>)
        \* r = probe(a1, ..., an): the arguments are "probe", the one at position
        \* rebinding (if any) as the call rebind("probe")
        CalleeProgram(n, rebinding) ==
            Program(<<VariableDeclaration(
                          "r",
                          FunctionCall("probe",
                                       [j \in 1..n |->
                                            IF j = rebinding
                                            THEN FunctionCall("rebind",
                                                              <<StringLit(<<"probe">>)>>)
                                            ELSE StringLit(<<"probe">>)]))>>)
        \* x = e  or  return e,  e a literal or  lhs op rhs
        ForceProgram(returned, e) ==
            Program(<<IF returned THEN ReturnStatement(<<e>>)
                      ELSE VariableDeclaration("x", e)>>)
    IN  CASE s.family = "short_circuit" -> ShortCircuitProgram(s.lit, s.op)
          [] s.family = "top_break" -> TopBreakProgram(s.kinds)
          [] s.family = "loop_break" -> LoopBreakProgram(s.loop, s.kinds, s.context)
          [] s.family = "scenario6" -> Scenario6
          [] s.family = "return" -> ReturnProgram(s.kinds, s.exprs)
          [] s.family = "if" -> IfProgram(s.conds, s.has_else)
          [] s.family = "scenario2" -> Scenario2
          [] s.family = "while_scope" -> WhileScopeProgram(s.k)
          [] s.family = "while_condition" -> WhileConditionProgram(s.k)
          [] s.family = "repeat_scope" -> RepeatScopeProgram(s.k)
          [] s.family = "repeat_once" -> RepeatOnceProgram(s.lit)
          [] s.family = "scenario3" -> Scenario3
          [] s.family = "for" -> ForProgram(s.start, s.stop)
          [] s.family = "scenario4" -> Scenario4
          [] s.family = "arity" -> ArityProgram(s.k)
          [] s.family = "source_change" -> SourceChangeProgram(s.position, s.more)
          [] s.family = "return_list" -> ReturnListProgram(s.calls)
          [] s.family = "local" -> LocalProgram(s.prior, s.init, s.block, s.kinds)
          [] s.family = "call" -> CallProgram(s.fn, s.n, s.statement)
          [] s.family = "callee" -> CalleeProgram(s.n, s.rebinding)
          [] s.family = "force" ->
                 ForceProgram(s.returned,
                              IF s.op = "literal" THEN s.lit
                              ELSE BinaryOperation(Num(s.lhs), s.op, Num(s.rhs)))
          [] s.family = "unbound" -> UnboundProgram(s.through, s.kinds)
          [] s.family = "error" -> ErrorProgram(s.k, s.failure, s.kinds)
          [] s.family = "declaration" ->
                 DeclarationProgram(s.chunk, s.mid, s.local, s.kinds)

(* -------------------------- applying a change --------------------------- *)

\* Value::force was not called
NotForced ==
    [called |-> FALSE, value |-> Nil, target |-> Nil, change |-> nullopt,
     edits |-> <<>>, applied |-> FALSE]

\* the edit list of a SourceChangeTree: an edit itself, all children of a
\* combination, the first child of an alternative
RECURSIVE collapse(_), collapse_all(_, _)
collapse(change) ==
    CASE change.kind = "edit" -> <<change>>
      [] change.kind = "and" -> collapse_all(change.changes, 1)
      [] change.kind = "or" ->
             IF change.changes = <<>> THEN <<>> ELSE collapse(change.changes[1])

collapse_all(changes, i) ==
    IF i > Len(changes) THEN <<>>
    ELSE collapse(changes[i]) \o collapse_all(changes, i + 1)

\* the parser on the text of one expression: a literal or a negated number
parse_expression(text) ==
    IF IsDecimal(text) THEN NumberLit(text)
    ELSE IF text = TrueLit.text THEN TrueLit
    ELSE IF text = FalseLit.text THEN FalseLit
    ELSE IF text = NilLit.text THEN NilLit
    ELSE IF text # <<>> /\ text[1] = "-" /\ IsDecimal(Tail(text))
    THEN UnaryOperation("-", NumberLit(Tail(text)))
    ELSE IF Len(text) >= 2 /\ text[1] = "\"" /\ text[Len(text)] = "\""
    THEN Leaf("string", text)
    ELSE Node("ERROR", <<>>)

\* the tree of the source after the edits: the text of every node an edit
\* names is replaced and parsed again
RECURSIVE edit_nodes(_, _)
edit_nodes(node, edits) ==
    LET here == {i \in 1..Len(edits) : edits[i].range = node.range}
    IN  IF here # {}
        THEN Locate(parse_expression(edits[CHOOSE i \in here : \A j \in here : i <= j]
                                         .replacement),
                    node.range)
        ELSE [node EXCEPT !.kids = [i \in 1..Len(node.kids) |->
                                        edit_nodes(node.kids[i], edits)]]

(* ------------------------------- ts::Tree ------------------------------- *)
(* A source text is a sequence of one-byte characters on one line, so the  *)
(* column of a position is its byte.  A std::uint32_t is written as the    *)
(* number its 32 bits denote in two's complement (4294967295 as -1), which *)
(* makes + and - on small numbers the arithmetic modulo 2^32 of the code.  *)

\* Edit{range, replacement} with the range [start, end) in bytes
Edit(start, end, replacement) ==
    [range |-> [start |-> [point |-> [row |-> 0, column |-> start], byte |-> start],
                end |-> [point |-> [row |-> 0, column |-> end], byte |-> end]],
     replacement |-> replacement]

\* no ts::Tree object
NoTree == [tree |-> <<>>, source_ |-> <<>>]

\* Tree::edit was not called; of a call: the edits applied, each with the length
\* the source had then, and the TSInputEdits handed to ts_tree_edit
NoCall == [called |-> FALSE, edits |-> <<>>, old_source |-> <<>>, applied |-> <<>>,
           input_edits |-> <<>>, thrown |-> <<>>]

\* Parser::parse_string(old_tree, source): the Tree of the new TSTree and the source
parse_string(old_tree, text) ==
    [tree |-> <<[text |-> text, edits |-> <<>>]>>, source_ |-> text]

\* std::string::replace(pos, len, str): throws std::out_of_range when pos is past
\* the end, and replaces at most the characters that are there
replace(text, pos, len, str) ==
    LET size == Len(text)
        n == IF len < 0 \/ len > size - pos THEN size - pos ELSE len
    IN  IF pos < 0 \/ pos > size
        THEN [thrown |-> <<Exception("out_of_range", "basic_string::replace", pos)>>,
              text |-> text]
        ELSE [thrown |-> <<>>,
              text |-> SubSeq(text, 1, pos) \o str \o SubSeq(text, pos + n + 1, size)]

\* _apply_edit(edit, tree, source): [thrown, tree, source]
_apply_edit(edit, ts, text) ==
    LET old_size == edit.range.end.byte - edit.range.start.byte
        replaced == replace(text, edit.range.start.byte, old_size, edit.replacement)
        size_diff == old_size - Len(edit.replacement)
        input_edit ==
            [start_byte |-> edit.range.start.byte,
             old_end_byte |-> edit.range.end.byte,
             new_end_byte |-> edit.range.end.byte + size_diff,
             start_point |-> edit.range.start.point,
             old_end_point |-> edit.range.end.point,
             new_end_point |-> [row |-> edit.range.end.point.row,
                                column |-> edit.range.end.point.column + size_diff]]
    IN  IF replaced.thrown # <<>>
        THEN [thrown |-> replaced.thrown, tree |-> ts, source |-> text]
        ELSE [thrown |-> <<>>,
              tree |-> [ts EXCEPT !.edits = Append(@, input_edit)],
              source |-> replaced.text]

\* the orders std::sort may leave the edits in: descending start byte, edits
\* with the same start byte in any order
sorted_orders(edits) ==
    {order \in [1..Len(edits) -> 1..Len(edits)] :
         /\ \A i, j \in 1..Len(edits) : i # j => order[i] # order[j]
         /\ \A i, j \in 1..Len(edits) :
                i < j => ~(edits[order[j]].range.start.byte
                               > edits[order[i]].range.start.byte)}

\* the loop of Tree::edit over the sorted edits, from the i-th on; applied lists the
\* edits applied with the length the source had then
RECURSIVE apply_edits(_, _, _, _, _)
apply_edits(edits, i, ts, text, applied) ==
    LET with_applied(r) ==
            IF r.thrown # <<>>
            THEN [thrown |-> r.thrown, tree |-> ts, source |-> text, applied |-> applied]
            ELSE apply_edits(edits, i + 1, r.tree, r.source,
                             Append(applied, [edit |-> edits[i], size |-> Len(text)]))
    IN  IF i > Len(edits)
        THEN [thrown |-> <<>>, tree |-> ts, source |-> text, applied |-> applied]
        ELSE with_applied(_apply_edit(edits[i], ts, text))

(* --------------------------- the interpreter --------------------------- *)

\* Interpreter::parse was not called
NoParse == [called |-> FALSE, source_code |-> <<>>, returned |-> <<>>]

\* the environment of a fresh interpreter: the chunk's scope over the globals,
\* which hold the registered native functions
InitialEnv ==
    [scopes |-> <<EmptyScope>>,
     global |-> (<<"probe">> :> NativeFunction("probe")) @@ (<<"nop">> :> NativeFunction("nop"))
                    @@ (<<"fail">> :> NativeFunction("fail"))
                    @@ (<<"change">> :> NativeFunction("change"))
                    @@ (<<"get">> :> NativeFunction("get"))
                    @@ (<<"rebind">> :> NativeFunction("rebind")),
     out |-> <<>>]

Init ==
    /\ source \in Sources
    /\ tree = TreeOf(source)
    /\ env = InitialEnv
    /\ phase = "parsed"
    /\ result = EvalResult0
    /\ error = <<>>
    /\ tables = <<>>
    /\ impls = <<>>
    /\ ts_tree = NoTree
    /\ edit_call = NoCall
    /\ parse_call = NoParse
    /\ forced = NotForced

\* evaluate(): run the parsed program on the interpreter's environment
Evaluate ==
    /\ phase = "parsed"
    /\ \E r \in {run(tree, env)} :
           /\ env' = r.env
           /\ result' = r.result
           /\ error' = r.exc
    /\ phase' = "evaluated"
    /\ UNCHANGED <<source, tree, tables, impls, ts_tree, edit_call, parse_call, forced>>

\* the targets the embedding program forces a value to
Targets == <<Number(0), Number(7), Number(10), Bool(TRUE), Nil, String(<<"a">>)>>

\* the embedding program forces a value of the finished run to a target: the
\* value the program returned or the value of the variable x
Force ==
    /\ phase = "evaluated"
    /\ error = <<>>
    /\ source.family = "force"
    /\ ~forced.called
    /\ \E i \in 1..Len(Targets) :
           \E value \in {IF source.returned THEN result.value ELSE get_var(env, <<"x">>)} :
               forced' = [called |-> TRUE, value |-> value, target |-> Targets[i],
                          change |-> force(value, Targets[i]), edits |-> <<>>,
                          applied |-> FALSE]
    /\ UNCHANGED <<source, tree, env, phase, result, error, tables, impls, ts_tree,
                   edit_call, parse_call>>

\* a change, the one force gave or the one the run returned, is applied to the
\* source with the default policy and the source is parsed again
ApplySourceChange ==
    /\ phase = "evaluated"
    /\ ~forced.applied
    /\ \E change \in {c \in {forced.change, result.source_change} : has_value(c)} :
           \E edits \in {collapse(change[1])} :
               /\ tree' = edit_nodes(tree, edits)
               /\ forced' = [forced EXCEPT !.change = change, !.edits = edits,
                                           !.applied = TRUE]
    /\ phase' = "parsed"
    /\ UNCHANGED <<source, env, result, error, tables, impls, ts_tree, edit_call,
                   parse_call>>

Next == Evaluate \/ Force \/ ApplySourceChange

Spec == Init /\ [][Next]_vars

Evaluated == phase = "evaluated"

(* ------------------------------- tables -------------------------------- *)
(* A Table is a handle [impl] on a Table::Impl cell, impls[impl], which is  *)
(* the map from keys to values.  The embedding program constructs, copies, *)
(* assigns and fills tables.                                               *)

\* the std::unordered_map values a table is constructed from: keys and values
\* are the numbers 1 and 2
TableContents == UNION {[K -> {1, 2}] : K \in SUBSET {1, 2}}

\* the embedding program without a program to run
NoProgram ==
    /\ source = [family |-> "none"]
    /\ tree = Program(<<>>)
    /\ env = InitialEnv
    /\ phase = "idle"
    /\ result = EvalResult0
    /\ error = <<>>
    /\ parse_call = NoParse
    /\ forced = NotForced

TableInit ==
    /\ NoProgram
    /\ tables = <<>> /\ impls = <<>>
    /\ ts_tree = NoTree /\ edit_call = NoCall

\* Table::Table(std::unordered_map<Value, Value>): a table with a cell of its own
\* (Table::Table() with the empty map)
NewTable ==
    /\ Len(tables) < MaxTables
    /\ \E value \in TableContents :
           /\ impls' = Append(impls, value)
           /\ tables' = Append(tables, [impl |-> Len(impls) + 1])
    /\ UNCHANGED <<source, tree, env, phase, result, error, ts_tree, edit_call, parse_call, forced>>

\* Table::Table(const Table& other): impl(other.impl)
CopyTable ==
    /\ Len(tables) < MaxTables
    /\ \E other \in 1..Len(tables) : tables' = Append(tables, [impl |-> tables[other].impl])
    /\ UNCHANGED <<source, tree, env, phase, result, error, impls, ts_tree, edit_call, parse_call, forced>>

\* Table::operator=(const Table& other): impl = other.impl
AssignTable ==
    /\ \E self \in 1..Len(tables), other \in 1..Len(tables) :
           /\ self # other
           /\ tables' = [tables EXCEPT ![self].impl = tables[other].impl]
    /\ UNCHANGED <<source, tree, env, phase, result, error, impls, ts_tree, edit_call, parse_call, forced>>

\* an entry inserted through one table: impl->value.insert_or_assign(key, value)
InsertTable ==
    /\ \E self \in 1..Len(tables), key \in {1, 2}, value \in {1, 2} :
           impls' = [impls EXCEPT ![tables[self].impl] = (key :> value) @@ @]
    /\ UNCHANGED <<source, tree, env, phase, result, error, tables, ts_tree, edit_call, parse_call, forced>>

TableNext == NewTable \/ CopyTable \/ AssignTable \/ InsertTable

TableSpec == TableInit /\ [][TableNext]_vars

\* operator==(const Table& a, const Table& b): a.impl->value == b.impl->value
TableEq(a, b) == impls[a.impl] = impls[b.impl]

(* ---------------------------- editing a tree --------------------------- *)

\* a Tree parsed from a text, not edited yet
TreeInit ==
    /\ NoProgram
    /\ tables = <<>> /\ impls = <<>>
    /\ \E text \in UNION {[1..n -> {"a", "b"}] : n \in 0..MaxLen} :
           ts_tree = parse_string(<<>>, text)
    /\ edit_call = NoCall

\* Tree::edit(edits).  When an edit throws, the exception leaves edit after
\* old_tree took the TSTree out of this->tree, and old_tree deletes it.
TreeEdit ==
    /\ ~edit_call.called
    /\ ts_tree.tree # <<>>
    /\ \E edits \in UNION {[1..n -> {Edit(start, end, replacement) :
                                        start \in 0..(MaxLen + 1),
                                        end \in 0..(MaxLen + 1),
                                        replacement \in {<<>>, <<"X">>}}] :
                            n \in 0..MaxEdits} :
           /\ \A i \in 1..Len(edits) : edits[i].range.start.byte <= edits[i].range.end.byte
           /\ \E order \in sorted_orders(edits) :
                  \E r \in {apply_edits([i \in 1..Len(edits) |-> edits[order[i]]], 1,
                                         ts_tree.tree[1], ts_tree.source_, <<>>)} :
                      /\ ts_tree' = IF r.thrown # <<>>
                                    THEN [ts_tree EXCEPT !.tree = <<>>]
                                    ELSE parse_string(<<r.tree>>, r.source)
                      /\ edit_call' = [called |-> TRUE, edits |-> edits,
                                       old_source |-> ts_tree.source_,
                                       applied |-> r.applied,
                                       input_edits |-> r.tree.edits,
                                       thrown |-> r.thrown]
    /\ UNCHANGED <<source, tree, env, phase, result, error, tables, impls, parse_call, forced>>

TreeSpec == TreeInit /\ [][TreeEdit]_vars

(* ----------------------------- the facade ------------------------------ *)
(* minilua::Interpreter over Interpreter::Impl {parser, tree, env}: source  *)
(* is the text the Parser was constructed with, tree the Tree member (an    *)
(* empty class, written <<>>), env the Environment.  A text handed to parse *)
(* is a program of Sources or a text with a syntax error.                   *)

\* Interpreter::Interpreter(initial_source_code): Impl(Parser(source), Environment())
InterpreterInit ==
    /\ source \in Sources
    /\ tree = <<>>
    /\ env = make_environment(InitialEnv)
    /\ phase = "constructed"
    /\ result = EvalResult0
    /\ error = <<>>
    /\ tables = <<>> /\ impls = <<>>
    /\ ts_tree = NoTree /\ edit_call = NoCall
    /\ parse_call = NoParse
    /\ forced = NotForced

\* Interpreter::parse(source_code): Impl::parse prints "parse", stores nothing
\* and returns nothing
InterpreterParse ==
    /\ \E source_code \in {[family |-> "top_break", has_error |-> FALSE],
                            [family |-> "syntax_error", has_error |-> TRUE]} :
           parse_call' = [called |-> TRUE, source_code |-> source_code, returned |-> <<>>]
    /\ phase' = "parse"
    /\ UNCHANGED <<source, tree, env, result, error, tables, impls, ts_tree, edit_call,
                   forced>>

\* Interpreter::run(): Impl::run prints "run" and returns EvalResult()
InterpreterRun ==
    /\ result' = EvalResult0
    /\ phase' = "run"
    /\ UNCHANGED <<source, tree, env, error, tables, impls, ts_tree, edit_call, parse_call, forced>>

InterpreterSpec == InterpreterInit /\ [][InterpreterParse \/ InterpreterRun]_vars

(* ----------------------------- observations ---------------------------- *)

\* the value of a variable as the embedding program reads it after the run
value_of(name) == get_var(env, <<name>>)

is_nil(v) == v.type = "nil"

is_number(v, n) == v.type = "number" /\ v.val = n

\* the positions in the tracer's output of the events ev of the node at range
events(ev, range) ==
    {i \in 1..Len(env.out) : env.out[i].ev = ev /\ env.out[i].range = range}

\* the evaluator entered the node at range
entered(range) == events("enter", range) # {}

\* the source changes the native functions called during the run returned
returned_changes ==
    {env.out[i].change[1] :
         i \in {j \in 1..Len(env.out) :
                    env.out[j].ev = "call_result" /\ has_value(env.out[j].change)}}

\* the edits at the leaves of a source change tree
RECURSIVE edits_of(_)
edits_of(change) ==
    IF change.kind = "edit" THEN {change}
    ELSE UNION {edits_of(change.changes[j]) : j \in 1..Len(change.changes)}

(* ------------------------------- claims -------------------------------- *)

\* C1: in `a and b` with a falsy and in `a or b` with a truthy, b is never
\* evaluated: its node (the third child of the binary operation, the third
\* child of the declaration r = a op b) is not entered and the native call
\* it contains does not happen.
C1_RightOperandOnlyIfNeeded ==
    (/\ source.family = "short_circuit"
     /\ Evaluated
     /\ (source.op = "and" <=> ~LiteralTruthy(source.lit)))
    => /\ ~entered(<<1, 3, 3>>)
       /\ \A i \in 1..Len(env.out) : env.out[i].ev # "call"

\* C2: a break executed at top level, directly or inside top-level do / if
\* blocks, raises an error, and the statements after it are not executed.
C2_TopLevelBreakRaises ==
    (source.family = "top_break" /\ Evaluated)
    => /\ error # <<>>
       /\ is_nil(value_of("after"))

\* C3: a break inside a while or repeat body, under any nesting of
\* do/if/elseif/else blocks, exits exactly the innermost loop: the rest of the
\* body is skipped, the result leaving the loop has do_break = FALSE, the
\* statements after the loop run and an enclosing loop goes on iterating.
C3_BreakExitsInnermostLoop ==
    (source.family = "loop_break" /\ Evaluated)
    => /\ error = <<>>
       /\ result.do_break = FALSE
       /\ is_nil(value_of("skipped"))
       /\ source.context = "then" => is_number(value_of("after"), 1)
       /\ source.context = "outer" => /\ is_number(value_of("n"), 2)
                                      /\ is_number(value_of("after"), 1)

\* a break three blocks deep in a repeat loop inside a while loop was evaluated
C3_Witness ==
    /\ source.family = "loop_break"
    /\ source.loop = "repeat"
    /\ source.kinds = <<"elseif", "else">>
    /\ source.context = "outer"
    /\ Evaluated
    /\ \E i \in 1..Len(env.out) :
           /\ env.out[i].ev = "exit"
           /\ env.out[i].type = "repeat_statement"
           /\ env.out[i].reason = "break"
    /\ is_number(value_of("n"), 2)

\* C4: evaluating `while true do break end done = 1` terminates (the loop
\* ends, the evaluation returns without an error) and leaves the global done
\* equal to 1.
C4_BreakEndsWhileTrue ==
    (source.family = "scenario6" /\ Evaluated)
    => /\ error = <<>>
       /\ is_number(value_of("done"), 1)

\* the loop of scenario 6 was left through its break
C4_Witness ==
    /\ source.family = "scenario6"
    /\ Evaluated
    /\ \E i \in 1..Len(env.out) :
           /\ env.out[i].ev = "exit"
           /\ env.out[i].type = "while_statement"
           /\ env.out[i].reason = "break"
    /\ is_number(value_of("done"), 1)

\* C5: once a return statement has executed, inside any nesting of do,
\* if/elseif/else, while and repeat blocks, no node is entered any more (no
\* later statement, no further iteration, no loop condition), and the
\* program's result carries do_return with the returned values.
C5_ReturnStopsTheProgram ==
    (source.family = "return" /\ Evaluated)
    => /\ error = <<>>
       /\ has_value(result.do_return)
       /\ LET returned == result.do_return[1]
          IN  /\ Len(returned) = Len(source.exprs)
              /\ Len(source.exprs) >= 1 => is_number(returned[1], 5)
              /\ Len(source.exprs) >= 2 => ValueEq(returned[2], Bool(TRUE))
       /\ is_nil(value_of("after"))
       /\ is_nil(value_of("skipped"))
       /\ \E i \in 1..Len(env.out) :
              /\ env.out[i].type = "return_statement"
              /\ \A j \in (i + 1)..Len(env.out) : env.out[j].ev # "enter"

\* a return of two values inside an else block inside a while loop was evaluated
C5_Witness ==
    /\ source.family = "return"
    /\ source.kinds = <<"while", "else">>
    /\ Len(source.exprs) = 2
    /\ Evaluated
    /\ has_value(result.do_return)
    /\ Len(result.do_return[1]) = 2
    /\ \E i \in 1..Len(env.out) :
           env.out[i].ev = "exit" /\ env.out[i].type = "return_statement"

\* the nodes of an if program (Sources, family "if"): the condition and the body of arm j
\* (arm 1 is the if itself, arm j > 1 the elseif at child 3 + j)
CondRange(j) == IF j = 1 THEN <<1, 2, 1>> ELSE <<1, 3 + j, 2, 1>>

BodyRange(j) == IF j = 1 THEN <<1, 4>> ELSE <<1, 3 + j, 4>>

\* the first arm of conds whose condition is truthy, 0 if there is none
FirstTruthy(conds) ==
    LET truthy == {j \in 1..Len(conds) : LiteralTruthy(conds[j])}
    IN  IF truthy = {} THEN 0 ELSE CHOOSE j \in truthy : \A l \in truthy : j <= l

\* C6: in an if statement with elseif arms and an optional else, conditions
\* are evaluated in source order (each at most once), the body of the first
\* arm with a truthy condition is the only arm body executed, conditions
\* after that arm are not evaluated, and the else body is executed iff it
\* exists and no condition was truthy; `if 2 > 1 then y = "a" else y = "b"
\* end` leaves y == "a".
C6_FirstTruthyArmRuns ==
    /\ (source.family = "if" /\ Evaluated)
       => LET conds == source.conds
              has_else == source.has_else
              first == FirstTruthy(conds)
              arms == 1..Len(conds)
              \* the else body is the second child of the else block, which
              \* follows the body of the if and the elseif blocks
          IN  /\ error = <<>>
              /\ \A j \in arms :
                     /\ entered(CondRange(j)) <=> (first = 0 \/ j <= first)
                     /\ Cardinality(events("enter", CondRange(j))) <= 1
                     /\ entered(BodyRange(j)) <=> j = first
              /\ \A j \in arms, l \in arms :
                     (j < l /\ entered(CondRange(l)))
                     => /\ entered(CondRange(j))
                        /\ \A a \in events("enter", CondRange(j)),
                              b \in events("enter", CondRange(l)) : a < b
              /\ entered(<<1, 4 + Len(conds), 2>>) <=> (has_else /\ first = 0)
              /\ IF first > 0 THEN is_number(value_of("r"), first)
                 ELSE IF has_else THEN is_number(value_of("r"), 0)
                 ELSE is_nil(value_of("r"))
    /\ (source.family = "scenario2" /\ Evaluated)
       => /\ error = <<>>
          /\ value_of("y").type = "string"
          /\ value_of("y").val = <<"a">>

\* the third arm of if false ... elseif nil ... elseif 0 ... else ... end ran
C6_Witness ==
    /\ source.family = "if"
    /\ source.conds = <<FalseLit, NilLit, Num(0)>>
    /\ source.has_else
    /\ Evaluated
    /\ entered(BodyRange(3))
    /\ is_number(value_of("r"), 3)

\* C7: a while loop evaluates its condition in the enclosing scope and runs
\* each iteration's body in a fresh child scope: a local of the body is seen
\* neither by the condition nor by the next iteration nor after the loop,
\* and what the body assigns to variables of the enclosing scope is seen by
\* the condition and after the loop.
C7_WhileBodyScope ==
    /\ (source.family = "while_scope" /\ Evaluated)
       => /\ error = <<>>
          /\ is_nil(value_of("seen"))
          /\ is_nil(value_of("aft"))
          /\ is_number(value_of("fin"), source.k)
          /\ is_nil(value_of("y"))
    /\ (source.family = "while_condition" /\ Evaluated)
       => /\ error = <<>>
          /\ is_number(value_of("n"), source.k)

\* a while loop whose body declares a local ran two iterations
C7_Witness ==
    /\ source.family = "while_scope"
    /\ source.k = 2
    /\ Evaluated
    /\ Cardinality(events("enter", <<2, 4>>)) >= 4
    /\ is_number(value_of("fin"), 2)

\* C8: a repeat loop runs its body at least once, evaluates the until
\* condition in the scope of the body it just ran (a local of the body is
\* visible to it, and to nothing after the loop), and stops after the first
\* iteration whose condition is truthy.
C8_RepeatUntilScope ==
    /\ (source.family = "repeat_scope" /\ Evaluated)
       => /\ error = <<>>
          /\ is_number(value_of("n"), source.k)
          /\ is_nil(value_of("aft"))
    /\ (source.family = "repeat_once" /\ Evaluated)
       => /\ error = <<>>
          /\ is_number(value_of("n"), 1)

\* a repeat loop ended in its second iteration by a local of its body
C8_Witness ==
    /\ source.family = "repeat_scope"
    /\ source.k = 2
    /\ Evaluated
    /\ error = <<>>
    /\ is_number(value_of("n"), 2)

\* C9: a numeric for statement runs its body once for each i = start,
\* start + step, ... up to stop; `local s = 0 for i = 1, 5 do s = s + i end`
\* leaves s == 15.
C9_NumericFor ==
    /\ (source.family = "scenario3" /\ Evaluated)
       => /\ error = <<>>
          /\ is_number(value_of("s"), 15)
    /\ (source.family = "for" /\ Evaluated)
       => /\ error = <<>>
          /\ is_number(value_of("c"),
                       IF source.stop >= source.start
                       THEN source.stop - source.start + 1 ELSE 0)

\* C10: a call of a user-defined function binds the parameters positionally
\* (extra arguments dropped, missing ones Nil), evaluates the body and yields
\* the returned values; `function f(a, b) return a * b end z = f(3, 4)`
\* leaves z == 12.
C10_UserFunctionCall ==
    /\ (source.family = "scenario4" /\ Evaluated)
       => /\ error = <<>>
          /\ is_number(value_of("z"), 12)
    /\ (source.family = "arity" /\ Evaluated)
       => /\ error = <<>>
          /\ IF source.k = 1 THEN is_nil(value_of("z")) ELSE is_number(value_of("z"), 2)

\* C11: every source change a native function returned during the evaluation
\* is in the source change tree of the final EvalResult, whether the call is a
\* statement, the left or right operand of a binary operation, the operand of
\* a unary operation or an argument of another call.
C11_CallChangesReachResult ==
    (source.family = "source_change" /\ Evaluated)
        => /\ error = <<>>
           /\ returned_changes # {}
           /\ \A c \in returned_changes :
                  /\ has_value(result.source_change)
                  /\ c \in edits_of(result.source_change[1])

\* C12: in the expression list of a return statement a call in the last
\* position contributes all of its return values to the returned list, a call
\* in an earlier position exactly its first return value (Nil if it returned
\* none).  probe returns its arguments, nop returns nothing.
C12_LastCallSpreads ==
    (source.family = "return_list" /\ Evaluated)
        => LET calls == source.calls
               returned(i) ==
                   IF calls[i].fn = "nop" THEN <<>>
                   ELSE [j \in 1..calls[i].n |-> Number(2 * (i - 1) + j)]
               first(i) == IF returned(i) = <<>> THEN Nil ELSE returned(i)[1]
               expected == [i \in 1..(Len(calls) - 1) |-> first(i)] \o returned(Len(calls))
           IN  /\ error = <<>>
               /\ has_value(result.do_return)
               /\ Len(result.do_return[1]) = Len(expected)
               /\ \A i \in 1..Len(expected) : ValueEq(result.do_return[1][i], expected[i])

\* C13: `local x = 2` inside a block binds x in that block only: the block
\* reads 2 and, once it has ended, every outer or global binding of x is what it
\* was.  A non-local `x = 2` assigns to the nearest visible binding of x, and
\* to the global scope when no local binding is visible, where the value is
\* still read after every enclosing block has ended.
C13_DeclarationScope ==
    (source.family = "declaration" /\ Evaluated)
        => LET before == IF source.chunk = "none" THEN Nil ELSE Number(1)
               global_x == get_global(env, <<"x">>)
           IN  /\ error = <<>>
               /\ is_number(value_of("seen"), 2)
               /\ source.local
                      => /\ ValueEq(value_of("aft"), before)
                         /\ source.mid => is_number(value_of("mid"), 5)
                         /\ ValueEq(global_x,
                                    IF source.chunk = "global" THEN Number(1) ELSE Nil)
               /\ (~source.local /\ source.mid)
                      => /\ is_number(value_of("mid"), 2)
                         /\ ValueEq(value_of("aft"), before)
               /\ (~source.local /\ ~source.mid)
                      => /\ is_number(value_of("aft"), 2)
                         /\ source.chunk # "local" => is_number(global_x, 2)
                         /\ source.chunk = "local" => is_nil(global_x)

\* a local and a non-local declaration ran inside nested blocks that have ended
C13_Witness ==
    /\ source.family = "declaration" /\ Evaluated /\ error = <<>>
    /\ Len(source.kinds) = MaxDepth /\ source.mid /\ source.chunk = "global"
    /\ is_number(value_of("seen"), 2)
    /\ is_number(value_of("aft"), 1)
    /\ depth_of(env) = 1

\* C14: when statement k of a program fails at run time, evaluate raises, no
\* statement after k is executed (none is entered, none of their variables
\* is bound), and what the statements 1..k-1 did to the environment is still
\* there: v1 = 1, local v2 = 2, v3 = 3 with statement k replaced.
C14_ErrorKeepsEnvironment ==
    (source.family = "error" /\ Evaluated)
        => LET name == <<"v1", "v2", "v3">>
           IN  /\ error # <<>>
               /\ \A i \in 1..3 :
                      /\ i < source.k => is_number(value_of(name[i]), i)
                      /\ i > source.k => is_nil(value_of(name[i])) /\ ~entered(<<i>>)
               /\ is_nil(value_of("skipped"))

\* the third statement failed inside nested blocks after the first two ran
C14_Witness ==
    /\ source.family = "error" /\ Evaluated /\ error # <<>>
    /\ source.k = 3 /\ Len(source.kinds) = MaxDepth
    /\ is_number(value_of("v1"), 1) /\ is_number(value_of("v2"), 2)
    /\ entered(<<3>>)

\* C15: every error that escapes Interpreter::run is an InterpreterException;
\* one raised by the evaluator itself arrives unchanged (the unimplemented
\* statement), any other exception is replaced by one, and a failure inside a
\* called function arrives as the InterpreterException "failed to call" that
\* names the function and the position of the call.
C15_SingleErrorKind ==
    (source.family = "error" /\ Evaluated)
        => /\ error # <<>>
           /\ error[1].class = "InterpreterException"
           /\ source.failure = "unimplemented"
                  => error[1] = UNIMPLEMENTED("for_statement")
           /\ source.failure \in {"call", "lookup", "not_callable"}
                  => /\ error[1].what = "failed to call"
                     /\ error[1].arg[1] =
                            <<CASE source.failure = "call" -> "fail"
                                [] source.failure = "lookup" -> "get"
                                [] OTHER -> "undefined">>
                     /\ \E i \in events("enter", error[1].arg[2]) :
                            env.out[i].type = "function_call"

\* C17: reading a name bound in no visible scope and not in the global scope
\* yields Nil and never raises, for an identifier expression of the program
\* (r = m) and for a lookup through the call context (r = get("m"), where the
\* native function get returns ctx.get(name)).
C17_UnboundNameIsNil ==
    (source.family = "unbound" /\ Evaluated)
        => /\ error = <<>>
           /\ is_nil(value_of("r"))

\* C16: table equality is identity: two tables constructed separately compare
\* unequal, also when both are empty or hold the same entries, and two tables
\* that are copies of the same table compare equal, also after entries were
\* inserted through either of them.
C16_TableEqualityIsIdentity ==
    \A a \in 1..Len(tables), b \in 1..Len(tables) :
        TableEq(tables[a], tables[b]) <=> tables[a].impl = tables[b].impl

\* the replacements of the edits i, i + 1, ... that insert at byte p (their range is
\* empty), one after the other
RECURSIVE insertions(_, _, _)
insertions(edits, p, i) ==
    IF i > Len(edits) THEN <<>>
    ELSE (IF edits[i].range.start.byte = p /\ edits[i].range.end.byte = p
          THEN edits[i].replacement ELSE <<>>)
         \o insertions(edits, p, i + 1)

\* the text from byte p on in which every edited range is replaced by its
\* replacement and every other byte is kept
RECURSIVE edited_text(_, _, _)
edited_text(text, edits, p) ==
    LET replacing == {i \in 1..Len(edits) : /\ edits[i].range.start.byte = p
                                            /\ edits[i].range.end.byte > p}
        first == CHOOSE i \in replacing : TRUE
    IN  insertions(edits, p, 1)
        \o (IF replacing # {}
            THEN edits[first].replacement
                 \o edited_text(text, edits, edits[first].range.end.byte)
            ELSE IF p < Len(text) THEN <<text[p + 1]>> \o edited_text(text, edits, p + 1)
            ELSE <<>>)

\* C18: for edits whose ranges lie inside the text and do not overlap pairwise,
\* Tree::edit leaves the text in which each edited range of the original is
\* replaced by its replacement and the other bytes are kept in order, whatever
\* the order of the edit list (the expected text does not depend on it).
C18_EditReplacesRanges ==
    (/\ edit_call.called
     /\ \A i \in 1..Len(edit_call.edits) :
            edit_call.edits[i].range.end.byte <= Len(edit_call.old_source)
     /\ \A i, j \in 1..Len(edit_call.edits) :
            i # j => ~(/\ edit_call.edits[i].range.start.byte
                              < edit_call.edits[j].range.end.byte
                       /\ edit_call.edits[j].range.start.byte
                              < edit_call.edits[i].range.end.byte))
        => /\ edit_call.thrown = <<>>
           /\ ts_tree.source_ = edited_text(edit_call.old_source, edit_call.edits, 0)

\* C19: a call of Tree::edit with two edits whose byte ranges intersect is
\* rejected: it raises and the source is not modified.
C19_OverlappingEditsRejected ==
    (/\ edit_call.called
     /\ \E i, j \in 1..Len(edit_call.edits) :
            /\ i # j
            /\ \E b \in 0..(MaxLen + 1) :
                   /\ edit_call.edits[i].range.start.byte <= b
                   /\ b < edit_call.edits[i].range.end.byte
                   /\ edit_call.edits[j].range.start.byte <= b
                   /\ b < edit_call.edits[j].range.end.byte)
        => /\ edit_call.thrown # <<>>
           /\ ts_tree.source_ = edit_call.old_source

\* C20: an edit whose start or end byte is greater than the length of the
\* source buffer it is applied to is never applied (with a clamped range): the
\* call fails instead.
C20_EditPastEndFails ==
    edit_call.called
        => \A k \in 1..Len(edit_call.applied) :
               /\ edit_call.applied[k].edit.range.start.byte <= edit_call.applied[k].size
               /\ edit_call.applied[k].edit.range.end.byte <= edit_call.applied[k].size

\* C21: when evaluate follows a parse of a text with syntax errors, it runs the
\* program the interpreter held before that parse (its result is the result
\* of evaluating that program), and the environment is the one held before.
C21_FailedParseKeepsProgram ==
    (/\ phase = "run"
     /\ parse_call.called
     /\ parse_call.source_code.has_error)
        => /\ \A r \in {run(TreeOf(source), InitialEnv)} :
                  r.exc = <<>> => result.value = r.result.value
           /\ env = make_environment(InitialEnv)

\* the texts of the literals of Targets, as they are written in a source
TargetTexts ==
    <<<<"0">>, <<"7">>, <<"1", "0">>, <<"t", "r", "u", "e">>, <<"n", "i", "l">>,
      <<"\"", "a", "\"">>>>

\* the range of the expression e in the program  x = e  or  return e
ForcedRange == IF source.returned THEN <<1, 2>> ELSE <<1, 3>>

\* the value that was forced, as the program computes it now
ForcedValue == IF source.returned THEN result.value ELSE get_var(env, <<"x">>)

changing_calls ==
    {j \in 1..Len(env.out) : env.out[j].ev = "call_result" /\ has_value(env.out[j].change)}

\* C22: the edit list a change tree is collapsed to is the edit itself for an
\* Edit, the edits of all children in order for an And and the edits of the
\* first child alone for an Or; and when two sub-evaluations (two statements
\* of the chunk, or the two operands of an operation) both produced a source
\* change, the result holds the And of the two, the earlier one first.
C22_CollapseAndCompose ==
    /\ forced.applied
           => \A c \in {forced.change[1]} :
                  /\ \A k \in 1..Len(c.changes) : c.changes[k].kind = "edit"
                  /\ c.kind = "edit" => forced.edits = <<c>>
                  /\ c.kind = "and" => forced.edits = c.changes
                  /\ c.kind = "or" => forced.edits = <<c.changes[1]>>
    /\ (/\ source.family = "source_change" /\ Evaluated /\ ~forced.applied
        /\ \/ source.position = "both" /\ ~source.more
           \/ source.position \in {"statement", "declaration", "rhs", "unary"}
                  /\ source.more)
           => /\ Cardinality(changing_calls) = 2
              /\ \E i, j \in changing_calls :
                     /\ i < j
                     /\ result.source_change =
                            <<SourceChangeCombination(<<env.out[i].change[1],
                                                        env.out[j].change[1]>>)>>

\* C25: the function a call invokes is the value the callee name had before
\* the arguments were evaluated, even when an argument rebinds the name: in
\* r = probe(..., rebind("probe"), ...)  the function probe is invoked and r
\* is its first argument, the string "probe" (rebind binds the name to nop,
\* which returns nothing).
C25_CalleeBeforeArguments ==
    (source.family = "callee" /\ Evaluated)
        => /\ error = <<>>
           /\ value_of("r").type = "string"
           /\ value_of("r").val = <<"probe">>

\* C26: a call with n >= 0 argument expressions invokes the callee exactly
\* once, with a list of exactly n values of which the i-th is the value of
\* the i-th argument expression; fn() with no argument does not raise.
C26_CallPassesArguments ==
    (source.family = "call" /\ Evaluated)
        => /\ error = <<>>
           /\ \E i, j \in 1..Len(env.out) :
                  /\ i < j
                  /\ \A k \in 1..Len(env.out) :
                         /\ env.out[k].ev = "call" <=> k = i
                         /\ env.out[k].ev = "call_result" <=> k = j
                  /\ env.out[i].name = <<source.fn>>
                  /\ env.out[j].name = <<source.fn>>
                  /\ Len(env.out[i].args) = source.n
                  /\ \A a \in 1..source.n : is_number(env.out[i].args[a], a)

\* C27: in the result of an evaluation value and do_return agree: when
\* do_return holds a non-empty value list, value is its first element, and
\* when no return statement was executed value is Nil.
C27_ValueIsFirstReturned ==
    (Evaluated /\ error = <<>>)
        => /\ (has_value(result.do_return) /\ result.do_return[1] # <<>>)
                  => ValueEq(result.value, result.do_return[1][1])
           /\ ~has_value(result.do_return) => is_nil(result.value)

\* C28: in  local x = e  the expression e is evaluated before the new local x
\* is bound: an x inside e reads the binding of x visible before the
\* declaration (1 here, or Nil when there is none), and  local x  without
\* initializer binds x to Nil in the current scope, so that an assignment to
\* x after it does not reach the binding outside the block.
C28_InitializerBeforeBinding ==
    (source.family = "local" /\ Evaluated
         /\ ~(source.init = "sum" /\ source.prior = "none"))
        => /\ error = <<>>
           /\ CASE source.init = "none" -> is_nil(value_of("seen"))
                [] source.init = "sum" -> is_number(value_of("seen"), 2)
                [] OTHER -> IF source.prior = "none" THEN is_nil(value_of("seen"))
                            ELSE is_number(value_of("seen"), 1)
           /\ IF ~source.block THEN is_number(value_of("aft"), 7)
              ELSE IF source.prior = "none" THEN is_nil(value_of("aft"))
              ELSE is_number(value_of("aft"), 1)

\* x = 1 do local x = x seen = x x = 7 end aft = x  was evaluated: seen is 1
C28_Witness ==
    /\ source.family = "local" /\ source.prior = "global" /\ source.init = "name"
    /\ source.block /\ source.kinds = <<>>
    /\ Evaluated /\ error = <<>>
    /\ is_number(value_of("seen"), 1)
    /\ is_number(value_of("aft"), 1)
    /\ \E i \in 1..Len(env.out) :
           env.out[i].ev = "exit" /\ env.out[i].type = "local_variable_declaration"

\* C29: when Tree::edit fails, the Tree is as it was before the call: it owns
\* the syntax tree it owned and has the source text it had.
C29_FailedEditKeepsTree ==
    (edit_call.called /\ edit_call.thrown # <<>>)
        => /\ ts_tree.source_ = edit_call.old_source
           /\ ts_tree.tree = parse_string(<<>>, edit_call.old_source).tree

\* C30: for every edit applied, the input edit handed to the incremental
\* parser has new_end_byte = start_byte + the length of the replacement,
\* whether the replacement is shorter than, as long as or longer than the
\* range it replaces.
C30_NewEndByte ==
    edit_call.called
        => /\ Len(edit_call.input_edits) = Len(edit_call.applied)
           /\ \A k \in 1..Len(edit_call.input_edits) :
                  edit_call.input_edits[k].new_end_byte
                      = edit_call.input_edits[k].start_byte
                            + Len(edit_call.applied[k].edit.replacement)

=============================================================================
